---- MODULE Spec2Model ----
(***************************************************************************)
(* Lattice (19wintersp/Lattice): a model of lib/lattice.c.                 *)
(*                                                                         *)
(* lattice() runs  lex -> parse_level -> parse_resolve -> eval -> free.    *)
(* Every C function is an operator of the same name that computes what the *)
(* C code computes; every C loop is a RECURSIVE operator.  The template    *)
(* source is a string read byte by byte (At), with "" standing for the     *)
(* terminating NUL.  Directive tokens live in a heap (a sequence of        *)
(* records addressed by index, 0 = NULL) with the prev/next/parent/child   *)
(* pointers of struct token; free() marks a token dead, it does not clear  *)
(* the pointers that still lead to it.                                     *)
(***************************************************************************)
EXTENDS Integers, Sequences, FiniteSets, TLC

VARIABLES
    pc,        \* position of the lattice() call: "parse", "eval", "free", "done"
    call,      \* its arguments (template, root, opts) and surroundings
               \* (files, emit callback, the word behind binary_op_prec)
    heap,      \* every struct token allocated so far
    tokf,      \* the first token (tok of lattice()), 0 = NULL
    error,     \* *errp: the error record, NoError when none was stored
    crashed,   \* "" or the undefined behaviour the call ran into
    res,       \* the size_t lattice() returns
    trace      \* what the renderer did: emit calls, evaluations, bodies rendered

vars == <<pc, call, heap, tokf, error, crashed, res, trace>>

(***************************************************************************)
(* Bytes and <ctype.h>                                                     *)
(***************************************************************************)
NUL == ""

At(src, i) == IF i >= 1 /\ i <= Len(src) THEN SubSeq(src, i, i) ELSE NUL

Slice(src, from, n) == SubSeq(src, from, from + n - 1)

\* strncmp(src + i, str, strlen(str)) == 0
StartsWith(src, i, str) ==
    /\ i + Len(str) - 1 <= Len(src)
    /\ SubSeq(src, i, i + Len(str) - 1) = str

DigitChars == <<"0", "1", "2", "3", "4", "5", "6", "7", "8", "9">>
HexChars == <<"a", "b", "c", "d", "e", "f">>
HexCharsUpper == <<"A", "B", "C", "D", "E", "F">>
LowerChars == {"a", "b", "c", "d", "e", "f", "g", "h", "i", "j", "k", "l", "m",
               "n", "o", "p", "q", "r", "s", "t", "u", "v", "w", "x", "y", "z"}
UpperChars == {"A", "B", "C", "D", "E", "F", "G", "H", "I", "J", "K", "L", "M",
               "N", "O", "P", "Q", "R", "S", "T", "U", "V", "W", "X", "Y", "Z"}
PunctChars == {"!", "\"", "#", "$", "%", "&", "'", "(", ")", "*", "+", ",", "-",
               ".", "/", ":", ";", "<", "=", ">", "?", "@", "[", "\\", "]", "^",
               "_", "{", "|", "}", "~"}

isdigit(c) == \E d \in 1..10 : DigitChars[d] = c
isxdigit(c) == isdigit(c) \/ \E d \in 1..6 : HexChars[d] = c \/ HexCharsUpper[d] = c
isalpha(c) == c \in LowerChars \/ c \in UpperChars
isalnum(c) == isalpha(c) \/ isdigit(c)
isspace(c) == c \in {" ", "\n", "\t", "\r"}
ispunct(c) == c \in PunctChars

\* c - '0' for a digit, 10 + tolower(c) - 'a' for a hex letter
DigitVal(c) ==
    IF isdigit(c) THEN (CHOOSE d \in 1..10 : DigitChars[d] = c) - 1
    ELSE 9 + (CHOOSE d \in 1..6 : HexChars[d] = c \/ HexCharsUpper[d] = c)

(***************************************************************************)
(* lattice_error and set_error                                             *)
(***************************************************************************)
NoError == [code |-> "", line |-> 0, message |-> "", file |-> ""]

MkError(line, code, message) ==
    [code |-> code, line |-> line, message |-> message, file |-> ""]

(***************************************************************************)
(* The expression lexer.  A lexeme is struct expr_lexeme.                  *)
(***************************************************************************)
Lexeme(type, line, num, str) == [type |-> type, line |-> line, num |-> num, str |-> str]

\* the state of one lex_expr call: *expr, *line, the list built so far, brackets
LexSt(pos, line, lexemes, brackets) ==
    [pos |-> pos, line |-> line, lexemes |-> lexemes, brackets |-> brackets,
     err |-> NoError, ub |-> ""]

LexAdd(st, type, num, str, adv, brk) ==
    [st EXCEPT !.lexemes = Append(@, Lexeme(type, st.line, num, str)),
               !.pos = @ + adv, !.brackets = @ + brk]

LexFail(st, message) ==
    [st EXCEPT !.err = MkError(st.line, "LATTICE_SYNTAX_ERROR", message),
               !.lexemes = <<>>]

LexUB(st, what) == [st EXCEPT !.ub = what, !.lexemes = <<>>]

\* LEX_CASE(ch, ty, ch2, ty2): the lexeme of a punctuation byte, st.pos already past it
LexPunct(src, st, c) ==
    LET two(ch2, ty2, ty) ==
            IF At(src, st.pos) = ch2 THEN LexAdd(st, ty2, 0, "", 1, 0)
            ELSE LexAdd(st, ty, 0, "", 0, 0)
    IN  CASE c = "(" -> LexAdd(st, "LEX_LPAREN", 0, "", 0, 1)
          [] c = ")" -> LexAdd(st, "LEX_RPAREN", 0, "", 0, -1)
          [] c = "[" -> LexAdd(st, "LEX_LBRACK", 0, "", 0, 1)
          [] c = "]" -> LexAdd(st, "LEX_RBRACK", 0, "", 0, -1)
          [] c = "{" -> LexAdd(st, "LEX_LBRACE", 0, "", 0, 1)
          [] c = "}" -> LexAdd(st, "LEX_RBRACE", 0, "", 0, -1)
          [] c = "," -> LexAdd(st, "LEX_COMMA", 0, "", 0, 0)
          [] c = "." -> LexAdd(st, "LEX_DOT", 0, "", 0, 0)
          [] c = ":" -> LexAdd(st, "LEX_COLON", 0, "", 0, 0)
          [] c = "|" -> two("|", "LEX_EITHER", "LEX_OR")
          [] c = "&" -> two("&", "LEX_BOTH", "LEX_AND")
          [] c = "^" -> LexAdd(st, "LEX_XOR", 0, "", 0, 0)
          [] c = "~" -> LexAdd(st, "LEX_COMP", 0, "", 0, 0)
          [] c = "=" -> two("=", "LEX_EQ", "LEX_EQ")
          [] c = "!" -> two("=", "LEX_NEQ", "LEX_NOT")
          [] c = ">" -> two("=", "LEX_GTE", "LEX_GT")
          [] c = "<" -> two("=", "LEX_LTE", "LEX_LT")
          [] c = "+" -> LexAdd(st, "LEX_ADD", 0, "", 0, 0)
          [] c = "-" -> LexAdd(st, "LEX_SUB", 0, "", 0, 0)
          [] c = "*" -> two("*", "LEX_EXP", "LEX_MUL")
          [] c = "/" -> two("/", "LEX_QUOT", "LEX_DIV")
          [] c = "%" -> LexAdd(st, "LEX_MOD", 0, "", 0, 0)
          [] c = "@" -> LexAdd(st, "LEX_ROOT", 0, "", 0, 0)
          [] c = "?" -> LexAdd(st, "LEX_OPT", 0, "", 0, 0)

LexPunctChars == {"(", ")", "[", "]", "{", "}", ",", ".", ":", "|", "&", "^", "~",
                  "=", "!", ">", "<", "+", "-", "*", "/", "%", "@", "?"}

\* while (cond(c)) expr++ : the first position from p on where cond fails
RECURSIVE SkipDigits(_, _, _)
SkipDigits(src, p, base) ==
    LET c == At(src, p)
        more == \/ base = 16 /\ isxdigit(c)
                \/ isdigit(c) /\ DigitVal(c) < (IF base > 10 THEN 10 ELSE base)
    IN  IF more THEN SkipDigits(src, p + 1, base) ELSE p

RECURSIVE SkipIdent(_, _)
SkipIdent(src, p) ==
    IF isalnum(At(src, p)) \/ At(src, p) = "_" THEN SkipIdent(src, p + 1) ELSE p

\* number *= base; number += digit, over src[from .. to-1]
RECURSIVE Accumulate(_, _, _, _, _)
Accumulate(src, from, to, base, number) ==
    IF from >= to THEN number
    ELSE Accumulate(src, from + 1, to, base, number * base + DigitVal(At(src, from)))

\* the escape of a string literal: the byte that replaces a backslash sequence
EscapeByte(c) ==
    CASE c = "n" -> "\n"
      [] c = "t" -> "\t"
      [] c = "r" -> "\r"
      [] c = "\\" -> "\\"
      [] c = "'" -> "'"
      [] c = "\"" -> "\""
      [] c \in {"a", "b", "e", "f", "v"} -> "?"
      [] OTHER -> NUL

\* while ((c = next byte) != quote) ... : contents and the position after the
\* closing quote; the loop has no test for the terminating NUL
RECURSIVE LexString(_, _, _, _)
LexString(src, p, quote, contents) ==
    LET c == At(src, p) IN
    IF p > Len(src) + 1 THEN [ok |-> FALSE, ub |-> "read past the end of the source",
                              msg |-> "", pos |-> p, str |-> contents]
    ELSE IF c = quote THEN [ok |-> TRUE, ub |-> "", msg |-> "", pos |-> p + 1, str |-> contents]
    ELSE IF c = "\\" THEN
        LET e == At(src, p + 1) IN
        IF e = "x" THEN
            IF ~isxdigit(At(src, p + 2)) \/ ~isxdigit(At(src, p + 3))
            THEN [ok |-> FALSE, ub |-> IF p + 3 > Len(src) + 1
                                        THEN "read past the end of the source" ELSE "",
                  msg |-> "invalid hex literal", pos |-> p + 4, str |-> contents]
            ELSE LexString(src, p + 4, quote, contents \o "?")
        ELSE IF EscapeByte(e) = NUL
        THEN [ok |-> FALSE, ub |-> "", msg |-> "invalid string escape",
              pos |-> p + 2, str |-> contents]
        ELSE LexString(src, p + 2, quote, contents \o EscapeByte(e))
    ELSE LexString(src, p + 1, quote, contents \o c)

\* the default: branch for a digit; st.pos is past the first digit c
LexNumber(src, st, c) ==
    LET nxt == At(src, st.pos)
        base == IF c # "0" THEN 10
                ELSE CASE nxt = "b" -> 2 [] nxt = "o" -> 8 [] nxt = "x" -> 16 [] OTHER -> 10
        p0 == IF base # 10 THEN st.pos + 1 ELSE st.pos
        p1 == SkipDigits(src, p0, base)
        whole == Accumulate(src, p0, p1, base, DigitVal(c))
        p2 == IF base = 10 /\ At(src, p1) = "." THEN SkipDigits(src, p1 + 1, 10) ELSE p1
        hasExp == base = 10 /\ At(src, p2) \in {"E", "e"}
        p3 == IF hasExp /\ At(src, p2 + 1) \in {"+", "-"} THEN p2 + 2
              ELSE IF hasExp THEN p2 + 1 ELSE p2
        p4 == IF hasExp THEN SkipDigits(src, p3, 10) ELSE p2
        endc == At(src, p4)
    IN  IF c = "0" /\ base = 10 /\ isdigit(nxt)
        THEN LexFail(st, "decimal literal with leading zero")
        ELSE IF hasExp /\ p4 = p3 THEN LexFail(st, "exponent cannot be empty")
        ELSE IF endc = NUL \/ ispunct(endc) \/ isspace(endc)
        THEN \* atof(): the whole part; the literal text is kept for its fraction
             LexAdd(st, "LEX_NUMBER", whole, Slice(src, st.pos - 1, p4 - st.pos + 1),
                    p4 - st.pos, 0)
        ELSE LexFail(st, "unexpected character")

LexIdent(src, st) ==
    LET p1 == SkipIdent(src, st.pos)
        ident == Slice(src, st.pos - 1, p1 - st.pos + 1)
    IN  CASE ident = "null" -> LexAdd(st, "LEX_NULL", 0, "", p1 - st.pos, 0)
          [] ident = "true" -> LexAdd(st, "LEX_BOOLEAN", 1, "", p1 - st.pos, 0)
          [] ident = "false" -> LexAdd(st, "LEX_BOOLEAN", 0, "", p1 - st.pos, 0)
          [] OTHER -> LexAdd(st, "LEX_IDENT", 0, ident, p1 - st.pos, 0)

\* one turn of the while loop of lex_expr, for the byte c just read
LexExprByte(src, st0, c) ==
    LET st == [st0 EXCEPT !.pos = @ + 1] IN
    CASE c = "\n" -> [st EXCEPT !.line = @ + 1]
      [] c \in LexPunctChars -> LexPunct(src, st, c)
      [] c \in {"\"", "'"} ->
            LET s == LexString(src, st.pos, c, "") IN
            IF s.ub # "" THEN LexUB(st, s.ub)
            ELSE IF ~s.ok THEN LexFail(st, s.msg)
            ELSE LexAdd(st, "LEX_STRING", 0, s.str, s.pos - st.pos, 0)
      [] isdigit(c) -> LexNumber(src, st, c)
      [] isalpha(c) \/ c = "_" -> LexIdent(src, st)
      [] isspace(c) /\ c # "\n" -> st
      [] OTHER -> LexFail(st, "unexpected character")

RECURSIVE LexExprLoop(_, _, _)
LexExprLoop(src, st, term) ==
    IF st.err # NoError \/ st.ub # "" THEN st
    ELSE IF At(src, st.pos) # NUL
            /\ (term = NUL \/ st.brackets > 0 \/ ~StartsWith(src, st.pos, term))
    THEN LexExprLoop(src, LexExprByte(src, st, At(src, st.pos)), term)
    ELSE st

\* lex_expr(expr, term, line, errp): the lexeme list (empty = the NULL return)
lex_expr(src, pos, term, line) == LexExprLoop(src, LexSt(pos, line, <<>>, 0), term)

(***************************************************************************)
(* The expression parser.  A node is struct expr_token: item[0..2] are the *)
(* operand expressions (item), a literal's number or text (num, str), and  *)
(* the next-chained lists of an array, an object or a call (list, list2).  *)
(* A parse result carries the node (NoNode = NULL), the index of the next  *)
(* unread lexeme (lexp; past the end = NULL), the error set and the line   *)
(* of the lexeme matched last (lex).                                       *)
(***************************************************************************)
NoNode == [type |-> "NULL", line |-> 0, num |-> 0, str |-> "",
           item |-> <<>>, list |-> <<>>, list2 |-> <<>>]

Node(type, line, num, str, item, list, list2) ==
    [type |-> type, line |-> line, num |-> num, str |-> str,
     item |-> item, list |-> list, list2 |-> list2]

PRes(tok, i, err, lexline) == [tok |-> tok, i |-> i, err |-> err, lexline |-> lexline]

\* PARSE_MATCH(ty) without its side effect
Matches(lexemes, i, ty) == i <= Len(lexemes) /\ lexemes[i].type = ty

SyntaxError(line, message) == MkError(line, "LATTICE_SYNTAX_ERROR", message)

unary_op == <<[lex |-> "LEX_ADD", expr |-> "EXPR_POS"],
              [lex |-> "LEX_SUB", expr |-> "EXPR_NEG"],
              [lex |-> "LEX_NOT", expr |-> "EXPR_NOT"],
              [lex |-> "LEX_COMP", expr |-> "EXPR_COMP"]>>

binary_op_prec == <<0, 2, 8, 11, 13, 18>>

binary_op == <<[lex |-> "LEX_BOTH", expr |-> "EXPR_BOTH"],
               [lex |-> "LEX_EITHER", expr |-> "EXPR_EITHER"],
               [lex |-> "LEX_EQ", expr |-> "EXPR_EQ"],
               [lex |-> "LEX_NEQ", expr |-> "EXPR_NEQ"],
               [lex |-> "LEX_LT", expr |-> "EXPR_LT"],
               [lex |-> "LEX_LTE", expr |-> "EXPR_LTE"],
               [lex |-> "LEX_GT", expr |-> "EXPR_GT"],
               [lex |-> "LEX_GTE", expr |-> "EXPR_GTE"],
               [lex |-> "LEX_AND", expr |-> "EXPR_AND"],
               [lex |-> "LEX_OR", expr |-> "EXPR_OR"],
               [lex |-> "LEX_XOR", expr |-> "EXPR_XOR"],
               [lex |-> "LEX_ADD", expr |-> "EXPR_ADD"],
               [lex |-> "LEX_SUB", expr |-> "EXPR_SUB"],
               [lex |-> "LEX_MUL", expr |-> "EXPR_MUL"],
               [lex |-> "LEX_DIV", expr |-> "EXPR_DIV"],
               [lex |-> "LEX_QUOT", expr |-> "EXPR_QUOT"],
               [lex |-> "LEX_EXP", expr |-> "EXPR_EXP"],
               [lex |-> "LEX_MOD", expr |-> "EXPR_MOD"]>>

\* binary_op_prec[k] in C indexing; k = 6 lies one past the array and reads the
\* word oobp that the build placed behind it
BinaryOpPrec(k, oobp) == IF k + 1 <= Len(binary_op_prec) THEN binary_op_prec[k + 1] ELSE oobp

RECURSIVE parse_ternary(_, _, _)
RECURSIVE parse_binary(_, _, _, _)
RECURSIVE parse_unary(_, _, _)
RECURSIVE parse_call(_, _, _)
RECURSIVE parse_primary(_, _, _)
RECURSIVE ParseList(_, _, _, _, _)
RECURSIVE ParsePairs(_, _, _, _, _, _)
RECURSIVE ParseCallLoop(_, _, _)
RECURSIVE ParseBinaryLoop(_, _, _, _)

\* do { next = parse_ternary(); append } while (PARSE_MATCH(LEX_COMMA));
\* ll is the line of lex, the lexeme the calling function matched last (the
\* opening bracket or the last comma)
ParseList(lexemes, i, oobp, acc, ll) ==
    LET Item(e) ==
    IF e.tok = NoNode THEN [ok |-> FALSE, list |-> acc, i |-> e.i, err |-> e.err,
                            lexline |-> ll]
    ELSE IF Matches(lexemes, e.i, "LEX_COMMA")
    THEN ParseList(lexemes, e.i + 1, oobp, Append(acc, e.tok), lexemes[e.i].line)
    ELSE [ok |-> TRUE, list |-> Append(acc, e.tok), i |-> e.i, err |-> NoError,
          lexline |-> ll]
    IN  Item(parse_ternary(lexemes, i, oobp))

\* the key : value loop of an object literal
ParsePairs(lexemes, i, oobp, keys, values, ll) ==
    LET Value(k, v) ==
         IF v.tok = NoNode
         THEN [ok |-> FALSE, keys |-> keys, values |-> values, i |-> v.i, err |-> v.err,
               lexline |-> lexemes[k.i].line]
         ELSE IF Matches(lexemes, v.i, "LEX_COMMA")
         THEN ParsePairs(lexemes, v.i + 1, oobp, Append(keys, k.tok), Append(values, v.tok),
                         lexemes[v.i].line)
         ELSE [ok |-> TRUE, keys |-> Append(keys, k.tok), values |-> Append(values, v.tok),
               i |-> v.i, err |-> NoError, lexline |-> lexemes[k.i].line]
        Key(k) ==
    IF k.tok = NoNode
    THEN [ok |-> FALSE, keys |-> keys, values |-> values, i |-> k.i, err |-> k.err,
          lexline |-> ll]
    ELSE IF ~Matches(lexemes, k.i, "LEX_COLON")
    THEN [ok |-> FALSE, keys |-> keys, values |-> values, i |-> k.i,
          err |-> SyntaxError(ll, "expected colon after object key"),
          lexline |-> ll]
    ELSE Value(k, parse_ternary(lexemes, k.i + 1, oobp))
    IN  Key(parse_ternary(lexemes, i, oobp))

parse_primary(lexemes, i, oobp) ==
    LET lex == IF i <= Len(lexemes) THEN lexemes[i] ELSE Lexeme("NULL", 0, 0, "")
        leaf(type) == PRes(Node(type, lex.line, lex.num, lex.str, <<>>, <<>>, <<>>),
                           i + 1, NoError, lex.line)
    IN
    CASE lex.type = "LEX_NULL" -> leaf("EXPR_NULL")
      [] lex.type = "LEX_BOOLEAN" -> leaf("EXPR_BOOLEAN")
      [] lex.type = "LEX_NUMBER" -> leaf("EXPR_NUMBER")
      [] lex.type = "LEX_STRING" -> leaf("EXPR_STRING")
      [] lex.type = "LEX_ROOT" -> leaf("EXPR_ROOT")
      [] lex.type = "LEX_IDENT" -> leaf("EXPR_IDENT")
      [] lex.type = "LEX_LPAREN" ->
            LET Group(g) ==
                    IF g.tok = NoNode THEN g
                    ELSE IF Matches(lexemes, g.i, "LEX_RPAREN")
                    THEN PRes(g.tok, g.i + 1, NoError, lexemes[g.i].line)
                    ELSE PRes(NoNode, g.i,
                              SyntaxError(lex.line, "expected closing parenthesis after group"),
                              lex.line)
            IN  Group(parse_ternary(lexemes, i + 1, oobp))
      [] lex.type = "LEX_LBRACK" ->
            IF Matches(lexemes, i + 1, "LEX_RBRACK")
            THEN PRes(Node("EXPR_ARRAY", lexemes[i + 1].line, 0, "", <<>>, <<>>, <<>>),
                      i + 2, NoError, lexemes[i + 1].line)
            ELSE LET Items(l) ==
                 IF ~l.ok THEN PRes(NoNode, l.i, l.err, l.lexline)
                 ELSE IF Matches(lexemes, l.i, "LEX_RBRACK")
                 THEN PRes(Node("EXPR_ARRAY", lexemes[l.i].line, 0, "", <<>>, l.list, <<>>),
                           l.i + 1, NoError, lexemes[l.i].line)
                 ELSE PRes(NoNode, l.i,
                           SyntaxError(l.lexline, "expected closing bracket after array values"),
                           l.lexline)
                 IN  Items(ParseList(lexemes, i + 1, oobp, <<>>, lex.line))
      [] lex.type = "LEX_LBRACE" ->
            IF Matches(lexemes, i + 1, "LEX_RBRACE")
            THEN PRes(Node("EXPR_OBJECT", lexemes[i + 1].line, 0, "", <<>>, <<>>, <<>>),
                      i + 2, NoError, lexemes[i + 1].line)
            ELSE LET Entries(l) ==
                 IF ~l.ok THEN PRes(NoNode, l.i, l.err, l.lexline)
                 ELSE IF Matches(lexemes, l.i, "LEX_RBRACE")
                 THEN PRes(Node("EXPR_OBJECT", lexemes[l.i].line, 0, "", <<>>,
                                l.keys, l.values),
                           l.i + 1, NoError, lexemes[l.i].line)
                 ELSE PRes(NoNode, l.i,
                           SyntaxError(l.lexline, "expected closing brace after object entries"),
                           l.lexline)
                 IN  Entries(ParsePairs(lexemes, i + 1, oobp, <<>>, <<>>, lex.line))
      [] lex.type = "NULL" ->
            PRes(NoNode, i, SyntaxError(0, "unexpected end of file"), 0)
      [] OTHER ->
            PRes(NoNode, i, SyntaxError(lex.line, "expected expression"), lex.line)

\* the for (;;) loop of parse_call: .ident, .ident(args), [i], [i, j]
ParseCallLoop(lexemes, r, oobp) ==
    LET i == r.i IN
    IF Matches(lexemes, i, "LEX_DOT") THEN
        IF ~Matches(lexemes, i + 1, "LEX_IDENT")
        THEN PRes(NoNode, i + 1,
                  SyntaxError(lexemes[i].line, "expected identifier after dot"),
                  lexemes[i].line)
        ELSE LET id == lexemes[i + 1]
                 look == Node("EXPR_LOOKUP", id.line, 0, id.str, <<r.tok>>, <<>>, <<>>)
             IN
             IF ~Matches(lexemes, i + 2, "LEX_LPAREN")
             THEN ParseCallLoop(lexemes, PRes(look, i + 2, NoError, id.line), oobp)
             ELSE IF Matches(lexemes, i + 3, "LEX_RPAREN")
             THEN ParseCallLoop(lexemes,
                      PRes([look EXCEPT !.type = "EXPR_METHOD"], i + 4, NoError,
                           lexemes[i + 3].line), oobp)
             ELSE LET Args(l) ==
                  IF ~l.ok THEN PRes(NoNode, l.i, l.err, l.lexline)
                  ELSE IF Matches(lexemes, l.i, "LEX_RPAREN")
                  THEN ParseCallLoop(lexemes,
                           PRes([look EXCEPT !.type = "EXPR_METHOD", !.list = l.list],
                                l.i + 1, NoError, lexemes[l.i].line), oobp)
                  ELSE PRes(NoNode, l.i,
                            SyntaxError(l.lexline,
                                        "expected closing parenthesis after arguments"),
                            l.lexline)
                  IN  Args(ParseList(lexemes, i + 3, oobp, <<>>, lexemes[i + 2].line))
    ELSE IF Matches(lexemes, i, "LEX_LBRACK") THEN
        LET Second(x, two, y) ==
             IF two /\ y.tok = NoNode THEN y
             ELSE IF ~Matches(lexemes, y.i, "LEX_RBRACK")
             THEN PRes(NoNode, y.i,
                       SyntaxError(lexemes[IF two THEN x.i ELSE i].line,
                                   "expected closing bracket after subscription"),
                       lexemes[i].line)
             ELSE ParseCallLoop(lexemes,
                      PRes(Node("EXPR_INDEX", lexemes[y.i].line, 0, "",
                                IF two THEN <<r.tok, x.tok, y.tok>> ELSE <<r.tok, x.tok>>,
                                <<>>, <<>>),
                           y.i + 1, NoError, lexemes[y.i].line), oobp)
            First(x) ==
                IF x.tok = NoNode THEN x
                ELSE IF Matches(lexemes, x.i, "LEX_COMMA")
                THEN Second(x, TRUE, parse_ternary(lexemes, x.i + 1, oobp))
                ELSE Second(x, FALSE, x)
        IN  First(parse_ternary(lexemes, i + 1, oobp))
    ELSE r

parse_call(lexemes, i, oobp) ==
    LET Postfix(p) == IF p.tok = NoNode THEN p ELSE ParseCallLoop(lexemes, p, oobp)
    IN  Postfix(parse_primary(lexemes, i, oobp))

parse_unary(lexemes, i, oobp) ==
    IF \E u \in 1..Len(unary_op) : Matches(lexemes, i, unary_op[u].lex)
    THEN LET u == CHOOSE k \in 1..Len(unary_op) : Matches(lexemes, i, unary_op[k].lex)
             Operand(t) ==
                 IF t.tok = NoNode THEN t
                 \* PARSE_TOK takes the line of lex, the lexeme this call matched
                 ELSE PRes(Node(unary_op[u].expr, lexemes[i].line, 0, "", <<t.tok>>,
                                <<>>, <<>>),
                           t.i, NoError, lexemes[i].line)
         IN  Operand(parse_unary(lexemes, i + 1, oobp))
    ELSE parse_call(lexemes, i, oobp)

\* the operators the inner for loop of parse_binary tries at level prec
PrecOps(prec, oobp) ==
    {k \in 1..Len(binary_op) :
        k - 1 >= BinaryOpPrec(prec, oobp) /\ k - 1 < BinaryOpPrec(prec + 1, oobp)}

ParseBinaryLoop(lexemes, r, prec, oobp) ==
    LET hit == {k \in PrecOps(prec, oobp) : Matches(lexemes, r.i, binary_op[k].lex)} IN
    IF hit = {} THEN r
    ELSE LET k == CHOOSE x \in hit : \A y \in hit : x <= y
             Right(rhs) ==
                 IF rhs.tok = NoNode THEN rhs
                 ELSE ParseBinaryLoop(lexemes,
                          PRes(Node(binary_op[k].expr, lexemes[r.i].line, 0, "",
                                    <<r.tok, rhs.tok>>, <<>>, <<>>),
                               rhs.i, NoError, lexemes[r.i].line),
                          prec, oobp)
         IN  Right(parse_binary(lexemes, r.i + 1, prec + 1, oobp))

parse_binary(lexemes, i, prec, oobp) ==
    IF prec >= Len(binary_op_prec) THEN parse_unary(lexemes, i, oobp)
    ELSE LET Left(lhs) ==
                 IF lhs.tok = NoNode THEN lhs ELSE ParseBinaryLoop(lexemes, lhs, prec, oobp)
         IN  Left(parse_binary(lexemes, i, prec + 1, oobp))

parse_ternary(lexemes, i, oobp) ==
    LET Else(c, b1, b2) ==
            IF b2.tok = NoNode THEN b2
            ELSE PRes(Node("EXPR_TERNARY", lexemes[b1.i].line, 0, "",
                           <<c.tok, b1.tok, b2.tok>>, <<>>, <<>>),
                      b2.i, NoError, lexemes[b1.i].line)
        Then(c, b1) ==
            IF b1.tok = NoNode THEN b1
            ELSE IF ~Matches(lexemes, b1.i, "LEX_COLON")
            THEN PRes(NoNode, b1.i,
                      SyntaxError(lexemes[c.i].line, "expected colon for ternary"),
                      lexemes[c.i].line)
            ELSE Else(c, b1, parse_binary(lexemes, b1.i + 1, 0, oobp))
        Cond(c) ==
            IF c.tok = NoNode \/ ~Matches(lexemes, c.i, "LEX_OPT") THEN c
            ELSE Then(c, parse_binary(lexemes, c.i + 1, 0, oobp))
    IN  Cond(parse_binary(lexemes, i, 0, oobp))

\* parse_expr(expr, term, line, errp): the node (NoNode = NULL), the position and
\* line reached, and the error stored; no error is stored when lex_expr returns
\* an empty list without failing
parse_expr(src, pos, term, line, oobp) ==
    LET Parsed(l, t) ==
         IF t.i <= Len(l.lexemes)
         THEN [tok |-> NoNode, pos |-> l.pos, line |-> l.line, ub |-> "",
               err |-> SyntaxError(l.line, "extra tokens in expression")]
         ELSE IF t.tok = NoNode
         THEN [tok |-> NoNode, pos |-> l.pos, line |-> l.line, ub |-> "",
               err |-> SyntaxError(l.line, "unterminated expression in substitution")]
         ELSE [tok |-> t.tok, pos |-> l.pos, line |-> l.line, ub |-> "", err |-> NoError]
        Lexed(l) ==
            IF l.lexemes = <<>>
            THEN [tok |-> NoNode, pos |-> l.pos, line |-> l.line, err |-> l.err, ub |-> l.ub]
            ELSE Parsed(l, parse_ternary(l.lexemes, 1, oobp))
    IN  Lexed(lex_expr(src, pos, term, line))

(***************************************************************************)
(* The JSON values behind lattice_iface (lib/lattice-cjson.c).  A value is *)
(* a record of its type tag t, its number n (a boolean is 0 or 1), its     *)
(* string s, and for a container its keys k and items v in insertion       *)
(* order.  NoValue is the C NULL pointer.                                  *)
(***************************************************************************)
NoValue == [t |-> "NULLPTR", n |-> 0, s |-> "", k |-> <<>>, v |-> <<>>]
VNull == [t |-> "null", n |-> 0, s |-> "", k |-> <<>>, v |-> <<>>]
VBool(b) == [t |-> "boolean", n |-> IF b THEN 1 ELSE 0, s |-> "", k |-> <<>>, v |-> <<>>]
VNum(n) == [t |-> "number", n |-> n, s |-> "", k |-> <<>>, v |-> <<>>]
VStr(s) == [t |-> "string", n |-> 0, s |-> s, k |-> <<>>, v |-> <<>>]
VArr(items) == [t |-> "array", n |-> 0, s |-> "", k |-> <<>>, v |-> items]
VObj(keys, items) == [t |-> "object", n |-> 0, s |-> "", k |-> keys, v |-> items]

\* ltype: cJSON_IsBool(NULL) .. cJSON_IsObject(NULL) are all false
ltype(value) == IF value = NoValue THEN "null" ELSE value.t

llength(value) ==
    CASE ltype(value) = "string" -> Len(value.s)
      [] ltype(value) \in {"array", "object"} -> Len(value.v)
      [] OTHER -> 0

\* lget with index.object: the first item stored under key, NoValue when absent
lget(value, key) ==
    IF ltype(value) = "object" /\ \E i \in 1..Len(value.k) : value.k[i] = key
    THEN value.v[CHOOSE i \in 1..Len(value.k) :
                    value.k[i] = key /\ \A j \in 1..(i - 1) : value.k[j] # key]
    ELSE NoValue

\* lget with index.array (0-based)
lgetAt(value, i) ==
    IF ltype(value) = "array" /\ i >= 0 /\ i < Len(value.v) THEN value.v[i + 1] ELSE NoValue

\* ladd: cJSON_AddItemToArray / cJSON_AddItemToObject append
ladd(obj, key, value) ==
    CASE ltype(obj) = "array" -> [obj EXCEPT !.v = Append(@, value)]
      [] ltype(obj) = "object" -> [obj EXCEPT !.k = Append(@, key), !.v = Append(@, value)]
      [] OTHER -> obj

\* lclone: a deep copy; values are compared by content, so the copy is the value
lclone(value) == value

\* the decimal text of a whole number
RECURSIVE PrintNat(_)
PrintNat(n) == IF n < 10 THEN DigitChars[n + 1] ELSE PrintNat(n \div 10) \o DigitChars[(n % 10) + 1]

PrintInt(n) == IF n < 0 THEN "-" \o PrintNat(-n) ELSE PrintNat(n)

\* the string escapes of cJSON's print_string this model covers
RECURSIVE PrintString(_, _)
PrintString(str, i) ==
    IF i > Len(str) THEN ""
    ELSE (CASE At(str, i) = "\"" -> "\\\""
            [] At(str, i) = "\\" -> "\\\\"
            [] At(str, i) = "\n" -> "\\n"
            [] At(str, i) = "\t" -> "\\t"
            [] OTHER -> At(str, i)) \o PrintString(str, i + 1)

RECURSIVE Tabs(_)
Tabs(n) == IF n <= 0 THEN "" ELSE "\t" \o Tabs(n - 1)

\* lprint is cJSON_Print, the formatted printer: an array is "[a, b]", an object
\* puts each member on a line of its own, indented by depth tabs, as "key":<tab>value
RECURSIVE PrintValue(_, _)
RECURSIVE PrintItems(_, _, _)
PrintItems(value, i, depth) ==
    IF i > Len(value.v) THEN ""
    ELSE LET last == i = Len(value.v) IN
         IF value.t = "array"
         THEN PrintValue(value.v[i], depth) \o (IF last THEN "" ELSE ", ")
              \o PrintItems(value, i + 1, depth)
         ELSE Tabs(depth) \o "\"" \o PrintString(value.k[i], 1) \o "\":\t"
              \o PrintValue(value.v[i], depth) \o (IF last THEN "" ELSE ",") \o "\n"
              \o PrintItems(value, i + 1, depth)

PrintValue(value, depth) ==
    CASE value.t = "null" -> "null"
      [] value.t = "boolean" -> IF value.n = 1 THEN "true" ELSE "false"
      [] value.t = "number" -> PrintInt(value.n)
      [] value.t = "string" -> "\"" \o PrintString(value.s, 1) \o "\""
      [] value.t = "array" -> "[" \o PrintItems(value, 1, depth + 1) \o "]"
      [] value.t = "object" ->
            "{\n" \o PrintItems(value, 1, depth + 1) \o Tabs(depth) \o "}"

lprint(value) == PrintValue(value, 0)

(***************************************************************************)
(* The expression evaluator                                                *)
(***************************************************************************)
\* truthiness that only tells null from the rest
value_truthy_nonnull(value) == ltype(value) # "null"

value_truthy(value) ==
    CASE ltype(value) = "null" -> FALSE
      [] ltype(value) = "boolean" -> value.n # 0
      [] ltype(value) = "number" -> value.n # 0
      [] ltype(value) = "string" -> value.s # ""
      [] OTHER -> llength(value) > 0

\* equality of the types alone
value_eq_types(lhs, rhs) == ltype(lhs) = ltype(rhs)

value_eq(lhs, rhs) ==
    IF ltype(lhs) = ltype(rhs)
    THEN CASE ltype(lhs) = "null" -> TRUE
           [] ltype(lhs) \in {"boolean", "number"} -> lhs.n = rhs.n
           [] ltype(lhs) = "string" -> lhs.s = rhs.s
           [] OTHER -> FALSE
    ELSE FALSE

\* the result of an evaluation: the owned value (NoValue = NULL) and the error
\* handed to set_error
ERes(val, err) == [val |-> val, err |-> err]

EFail(line, code, message) == ERes(NoValue, MkError(line, code, message))

\* values are whole numbers here: a literal with a fraction or an exponent is
\* outside the model
WholeLiteral(str) ==
    \/ At(str, 1) = "0" /\ At(str, 2) \in {"b", "o", "x"}
    \/ \A i \in 1..Len(str) : isdigit(At(str, i))

\* the arithmetic of two numbers (lhs op rhs on doubles), for whole operands:
\* whole tells whether the result is a whole number again
RECURSIVE Pow(_, _)
Pow(x, y) == IF y = 0 THEN 1 ELSE x * Pow(x, y - 1)

Abs(x) == IF x < 0 THEN -x ELSE x

Floor(x, y) == IF y > 0 THEN x \div y ELSE (-x) \div (-y)

Arithmetic(ty, x, y) ==
    CASE ty = "EXPR_ADD" -> [whole |-> TRUE, n |-> x + y]
      [] ty = "EXPR_SUB" -> [whole |-> TRUE, n |-> x - y]
      [] ty = "EXPR_MUL" -> [whole |-> TRUE, n |-> x * y]
      [] ty = "EXPR_DIV" ->
            IF y = 0 \/ Abs(x) % Abs(y) # 0 THEN [whole |-> FALSE, n |-> 0]
            ELSE [whole |-> TRUE, n |-> Floor(x, y)]
      [] ty = "EXPR_QUOT" ->
            IF y = 0 THEN [whole |-> FALSE, n |-> 0]
            ELSE [whole |-> TRUE, n |-> Floor(x, y)]
      [] ty = "EXPR_MOD" ->
            IF y = 0 THEN [whole |-> FALSE, n |-> 0]
            ELSE [whole |-> TRUE,
                  n |-> IF x < 0 THEN -(Abs(x) % Abs(y)) ELSE x % Abs(y)]
      [] ty = "EXPR_EXP" ->
            IF y < 0 THEN [whole |-> FALSE, n |-> 0]
            ELSE [whole |-> TRUE, n |-> Pow(x, y)]

\* bbw_lhs & bbw_rhs, bbw_lhs | bbw_rhs, bbw_lhs ^ bbw_rhs, bit by bit
RECURSIVE bbw_value(_, _, _)
bbw_value(ty, x, y) ==
    IF x = 0 /\ y = 0 THEN 0
    ELSE LET a == x % 2
             b == y % 2
             bit == CASE ty = "EXPR_AND" -> IF a = 1 /\ b = 1 THEN 1 ELSE 0
                      [] ty = "EXPR_OR" -> IF a = 1 \/ b = 1 THEN 1 ELSE 0
                      [] ty = "EXPR_XOR" -> IF a # b THEN 1 ELSE 0
         IN  2 * bbw_value(ty, x \div 2, y \div 2) + bit

NegativeIndex == "negative double converted to size_t"

\* rhs_number: a negative index counts from the end
IndexNumber(rhs, length) == IF rhs.n < 0 THEN rhs.n + length ELSE rhs.n

Min(x, y) == IF x < y THEN x ELSE y

\* case EXPR_INDEX once lhs, rhs and rhs2 are evaluated; two tells whether the
\* subscript has a second index.  The conversion of a number that is still
\* negative to size_t is undefined.
Index(expr, lhs, rhs, rhs2, two) ==
    LET len == llength(lhs)
        i == IndexNumber(rhs, len)
        j == IndexNumber(rhs2, len)
        lo == Min(i, len)
        hi == IF Min(j, len) < lo THEN lo ELSE Min(j, len)
    IN
    CASE ltype(lhs) \in {"string", "array"} ->
            IF ltype(rhs) # "number"
            THEN EFail(expr.item[2].line, "LATTICE_TYPE_ERROR", "index must be a number")
            ELSE IF i < 0 THEN EFail(expr.line, "UNDEFINED", NegativeIndex)
            ELSE IF two THEN
                IF ltype(rhs2) # "number"
                THEN EFail(expr.line, "UNMODELLED", "second index that is not a number")
                ELSE IF j < 0 THEN EFail(expr.line, "UNDEFINED", NegativeIndex)
                ELSE IF ltype(lhs) = "string"
                THEN ERes(VStr(Slice(lhs.s, lo + 1, hi - lo)), NoError)
                ELSE ERes(VArr(SubSeq(lhs.v, lo + 1, hi)), NoError)
            ELSE IF i >= len
            THEN EFail(expr.item[2].line, "LATTICE_VALUE_ERROR", "index out of range")
            ELSE IF ltype(lhs) = "string" THEN ERes(VStr(At(lhs.s, i + 1)), NoError)
            ELSE ERes(lclone(lgetAt(lhs, i)), NoError)
      [] ltype(lhs) = "object" ->
            IF two
            THEN EFail(expr.item[3].line, "LATTICE_TYPE_ERROR", "cannot range-index an object")
            ELSE IF ltype(rhs) # "string"
            THEN EFail(expr.item[2].line, "LATTICE_TYPE_ERROR", "index must be a string")
            ELSE IF lget(lhs, rhs.s) = NoValue
            THEN EFail(expr.item[2].line, "LATTICE_VALUE_ERROR", "index out of range")
            ELSE ERes(lclone(lget(lhs, rhs.s)), NoError)
      [] OTHER ->
            EFail(expr.line, "LATTICE_TYPE_ERROR", "can only index string, array, or object")

(***************************************************************************)
(* Methods                                                                 *)
(***************************************************************************)
\* the position of a byte in a string, 0 when absent
PosIn(str, c) ==
    IF \E i \in 1..Len(str) : At(str, i) = c
    THEN CHOOSE i \in 1..Len(str) : At(str, i) = c /\ \A k \in 1..(i - 1) : At(str, k) # c
    ELSE 0

Letters == "abcdefghijklmnopqrstuvwxyz"
Capitals == "ABCDEFGHIJKLMNOPQRSTUVWXYZ"

\* c & 0x1f for the bytes of a method name and of hash_trans
Low5(c) ==
    CASE PosIn(Letters, c) > 0 -> PosIn(Letters, c)
      [] PosIn("@" \o Capitals \o "[\\]^_", c) > 0 -> PosIn("@" \o Capitals \o "[\\]^_", c) - 1
      [] isdigit(c) -> 15 + PosIn("0123456789", c)
      [] OTHER -> 0

hash_trans == "UTQFHY[J^]LVZCAD@S\\WXGPINEOBKR_M"

Xor(x, y) == bbw_value("EXPR_XOR", x, y)

\* the loop of hash: byte k (from 0) goes to s1 when k is odd, to s2 when even
RECURSIVE HashLoop(_, _, _, _)
HashLoop(str, k, s1, s2) ==
    IF k >= Len(str) THEN Xor(s1, s2 * 8)
    ELSE IF k % 2 = 1
    THEN HashLoop(str, k + 1, Low5(At(hash_trans, Xor(s1, Low5(At(str, k + 1))) + 1)), s2)
    ELSE HashLoop(str, k + 1, s1, Low5(At(hash_trans, Xor(s2, Low5(At(str, k + 1))) + 1)))

hash(str) == HashLoop(str, 0, 0, 0)

\* enum method_id and methods[]: the slot, the name and the number of arguments
methods == <<[id |-> 173, name |-> "boolean", length |-> 0],
             [id |-> 49, name |-> "contains", length |-> 1],
             [id |-> 61, name |-> "find", length |-> 1],
             [id |-> 164, name |-> "datetime", length |-> 0],
             [id |-> 196, name |-> "join", length |-> 1],
             [id |-> 44, name |-> "keys", length |-> 0],
             [id |-> 217, name |-> "length", length |-> 0],
             [id |-> 140, name |-> "lower", length |-> 0],
             [id |-> 52, name |-> "nan", length |-> 0],
             [id |-> 126, name |-> "number", length |-> 0],
             [id |-> 151, name |-> "real", length |-> 0],
             [id |-> 29, name |-> "repeat", length |-> 1],
             [id |-> 88, name |-> "replace", length |-> 2],
             [id |-> 118, name |-> "reverse", length |-> 0],
             [id |-> 36, name |-> "round", length |-> 0],
             [id |-> 200, name |-> "sort", length |-> 0],
             [id |-> 80, name |-> "string", length |-> 0],
             [id |-> 229, name |-> "type", length |-> 0],
             [id |-> 9, name |-> "upper", length |-> 0],
             [id |-> 2, name |-> "values", length |-> 0]>>

\* methods[id]: the index of the entry stored in slot id, 0 for an empty slot
MethodSlot(id) ==
    IF \E m \in 1..Len(methods) : methods[m].id = id
    THEN CHOOSE m \in 1..Len(methods) : methods[m].id = id
    ELSE 0

\* the order of enum lattice_type
TypeRank(value) ==
    CASE ltype(value) = "null" -> 0
      [] ltype(value) = "boolean" -> 1
      [] ltype(value) = "number" -> 2
      [] ltype(value) = "string" -> 3
      [] ltype(value) = "array" -> 4
      [] ltype(value) = "object" -> 5

RECURSIVE MapCase(_, _, _)
MapCase(str, from, to) ==
    IF str = "" THEN ""
    ELSE (IF PosIn(from, At(str, 1)) > 0 THEN At(to, PosIn(from, At(str, 1))) ELSE At(str, 1))
         \o MapCase(SubSeq(str, 2, Len(str)), from, to)

\* size_t arithmetic.  The width is reduced from the 64 bits of the build to
\* one the checker's integers hold; every string of the model is far shorter,
\* so a value wraps here exactly when it wraps in 64 bits
SizeBits == 16
SizeMod == 2 ^ SizeBits
\* malloc fails for a request above PTRDIFF_MAX
PtrdiffMax == SizeMod \div 2 - 1

RECURSIVE ItemLengths(_, _)
ItemLengths(items, i) ==
    IF i > Len(items) THEN 0 ELSE Len(items[i].s) + ItemLengths(items, i + 1)

\* length = (count - 1) * strlen(joiner); length += strlen(item), in size_t
JoinLength(items, joiner) ==
    ((((Len(items) - 1) * Len(joiner)) % SizeMod) + ItemLengths(items, 1)) % SizeMod

\* malloc(length + 1)
JoinBuffer(items, joiner) == (JoinLength(items, joiner) + 1) % SizeMod

RECURSIVE Joined(_, _, _)
Joined(items, i, joiner) ==
    IF i > Len(items) THEN ""
    ELSE items[i].s \o (IF i < Len(items) THEN joiner ELSE "") \o Joined(items, i + 1, joiner)

RECURSIVE Repeated(_, _)
Repeated(items, n) == IF n = 0 THEN SubSeq(items, 1, 0) ELSE items \o Repeated(items, n - 1)

\* the search loop of contains and find over an array or an object: the first i
\* whose item equals the argument, -1 when none.  On an object the index is
\* read as a key pointer: 0 is NULL and finds nothing, any later one is an
\* invalid pointer.
RECURSIVE Search(_, _, _)
Search(this, arg, i) ==
    IF i >= llength(this) THEN [in |-> -1, ub |-> FALSE]
    ELSE IF ltype(this) = "object" /\ i > 0 THEN [in |-> -1, ub |-> TRUE]
    ELSE IF value_eq(IF ltype(this) = "object" THEN NoValue ELSE lgetAt(this, i), arg)
    THEN [in |-> i, ub |-> FALSE]
    ELSE Search(this, arg, i + 1)

method(name, this, args, line) ==
    LET m == MethodSlot(hash(name))
        null == ERes(VNull, NoError)
    IN
    IF m = 0 \/ methods[m].name # name THEN null
    ELSE IF Len(args) # methods[m].length
    THEN EFail(line, "LATTICE_VALUE_ERROR",
               IF Len(args) > methods[m].length THEN "too many arguments to method"
               ELSE "not enough arguments to method")
    ELSE
    CASE name = "boolean" -> ERes(VBool(value_truthy(this)), NoError)
      [] name \in {"contains", "find"} ->
            IF TypeRank(this) < 3 THEN null
            ELSE IF ltype(this) = "string"
            THEN EFail(line, "UNDEFINED", "iface.type called on the result of a comparison")
            ELSE IF Search(this, args[1], 0).ub
            THEN EFail(line, "UNDEFINED", "array index used as the key of an object")
            ELSE IF name = "contains"
            THEN ERes(VBool(Search(this, args[1], 0).in >= 0), NoError)
            ELSE ERes(VNum(Search(this, args[1], 0).in), NoError)
      [] name = "datetime" ->
            IF ltype(this) # "string" THEN null
            ELSE EFail(line, "UNMODELLED", "the current time")
      [] name = "join" ->
            IF ltype(this) # "array" \/ ltype(args[1]) # "string" THEN null
            ELSE IF \E i \in 1..Len(this.v) : ltype(this.v[i]) # "string" THEN null
            ELSE IF JoinBuffer(this.v, args[1].s) > PtrdiffMax
            THEN EFail(line, "UNDEFINED", "write through the NULL that malloc returned")
            ELSE IF JoinBuffer(this.v, args[1].s) < Len(Joined(this.v, 1, args[1].s)) + 1
            THEN EFail(line, "UNDEFINED", "write past the end of the joined buffer")
            ELSE ERes(VStr(Joined(this.v, 1, args[1].s)), NoError)
      [] name \in {"keys", "values"} ->
            IF TypeRank(this) < 4 THEN null
            ELSE IF ltype(this) = "object"
            THEN ERes(VArr([i \in 1..Len(this.k) |->
                               IF name = "keys" THEN VStr(this.k[i])
                               ELSE lclone(lget(this, this.k[i]))]), NoError)
            ELSE IF name = "keys"
            THEN ERes(VArr([i \in 1..Len(this.v) |-> VNum(i - 1)]), NoError)
            ELSE IF Len(this.v) > 1
            THEN EFail(line, "UNMODELLED", "array index read from the bytes of a double")
            ELSE ERes(VArr(this.v), NoError)
      [] name = "length" ->
            IF TypeRank(this) < 3 THEN null ELSE ERes(VNum(llength(this)), NoError)
      [] name \in {"lower", "upper"} ->
            IF ltype(this) # "string" THEN null
            ELSE ERes(VStr(IF name = "lower" THEN MapCase(this.s, Capitals, Letters)
                           ELSE MapCase(this.s, Letters, Capitals)), NoError)
      [] name = "nan" ->
            IF ltype(this) # "number" THEN null ELSE ERes(VBool(FALSE), NoError)
      [] name = "number" ->
            CASE ltype(this) = "null" -> ERes(VNum(0), NoError)
              [] ltype(this) \in {"boolean", "number"} -> ERes(VNum(this.n), NoError)
              [] ltype(this) = "string" -> EFail(line, "UNMODELLED", "atof")
              [] OTHER -> null
      [] name = "real" ->
            IF ltype(this) # "number" THEN null ELSE ERes(VBool(TRUE), NoError)
      [] name = "repeat" ->
            IF ltype(args[1]) # "number" THEN null
            ELSE IF args[1].n < 0 THEN EFail(line, "UNDEFINED", NegativeIndex)
            ELSE IF ltype(this) = "string"
            THEN ERes(VStr(Repeated(this.s, args[1].n)), NoError)
            ELSE IF ltype(this) = "array"
            THEN ERes(VArr(Repeated(this.v, args[1].n)), NoError)
            ELSE null
      [] name \in {"replace", "reverse", "sort"} -> null
      [] name = "round" ->
            IF ltype(this) # "number" THEN null ELSE ERes(VNum(this.n), NoError)
      [] name = "string" -> ERes(VStr(lprint(this)), NoError)
      [] name = "type" -> ERes(VStr(ltype(this)), NoError)

RECURSIVE eval_expr(_, _)
RECURSIVE EvalArray(_, _, _, _)
RECURSIVE EvalObject(_, _, _, _, _, _)

\* case EXPR_ARRAY: the items left to right
EvalArray(list, i, ctx, array) ==
    IF i > Len(list) THEN ERes(array, NoError)
    ELSE LET ve == eval_expr(list[i], ctx) IN
         IF ve.val = NoValue THEN ve
         ELSE EvalArray(list, i + 1, ctx, ladd(array, "", ve.val))

\* case EXPR_OBJECT: k walks the keys and v the values; v moves on only after a
\* string key
EvalObject(keys, values, k, v, ctx, object) ==
    IF k > Len(keys) THEN ERes(object, NoError)
    ELSE LET Value(ke, ve) ==
                 IF ve.val = NoValue THEN ve
                 ELSE EvalObject(keys, values, k + 1, v + 1, ctx,
                                 ladd(object, ke.val.s, ve.val))
             Key(ke) ==
                 IF ke.val = NoValue THEN ke
                 ELSE CASE ltype(ke.val) = "null" ->
                               EvalObject(keys, values, k + 1, v, ctx, object)
                        [] ltype(ke.val) = "string" ->
                               Value(ke, eval_expr(values[v], ctx))
                        [] OTHER ->
                               EFail(keys[k].line, "LATTICE_TYPE_ERROR",
                                     "object key must be string or null")
         IN  Key(eval_expr(keys[k], ctx))

eval_expr(expr, ctx) ==
    LET ty == expr.type
        L == eval_expr(expr.item[1], ctx)
        R == eval_expr(expr.item[2], ctx)
    IN
    CASE ty = "EXPR_NULL" -> ERes(VNull, NoError)
      [] ty = "EXPR_BOOLEAN" -> ERes(VBool(expr.num = 1), NoError)
      [] ty = "EXPR_NUMBER" ->
            IF WholeLiteral(expr.str) THEN ERes(VNum(expr.num), NoError)
            ELSE EFail(expr.line, "UNMODELLED", "fractional number")
      [] ty = "EXPR_STRING" -> ERes(VStr(expr.str), NoError)
      [] ty = "EXPR_ARRAY" -> EvalArray(expr.list, 1, ctx, VArr(<<>>))
      [] ty = "EXPR_OBJECT" ->
            EvalObject(expr.list, expr.list2, 1, 1, ctx, VObj(<<>>, <<>>))
      [] ty \in {"EXPR_EITHER", "EXPR_BOTH"} ->
            IF L.val = NoValue THEN L
            ELSE IF (ty = "EXPR_EITHER") = value_truthy(L.val) THEN L
            ELSE R
      [] ty \in {"EXPR_EQ", "EXPR_NEQ"} ->
            IF L.val = NoValue THEN L
            ELSE IF R.val = NoValue THEN R
            ELSE ERes(VBool((ty = "EXPR_EQ") = value_eq(L.val, R.val)), NoError)
      [] ty \in {"EXPR_GT", "EXPR_LTE", "EXPR_LT", "EXPR_GTE"} ->
            IF L.val = NoValue THEN L
            ELSE IF R.val = NoValue THEN R
            ELSE IF ltype(L.val) # ltype(R.val)
            THEN EFail(expr.line, "LATTICE_TYPE_ERROR", "can only compare similar types")
            ELSE IF ltype(L.val) \notin {"number", "string"}
            THEN EFail(expr.line, "LATTICE_TYPE_ERROR", "can only compare number or string")
            ELSE IF ltype(L.val) = "string" /\ L.val.s # R.val.s
            THEN EFail(expr.line, "UNMODELLED", "strcmp of different strings")
            ELSE LET cmp == IF ltype(L.val) = "string" THEN 0 ELSE L.val.n - R.val.n IN
                 ERes(VBool(\/ cmp < 0 /\ ty \in {"EXPR_LT", "EXPR_LTE"}
                            \/ cmp > 0 /\ ty \in {"EXPR_GT", "EXPR_GTE"}
                            \/ cmp = 0 /\ ty \in {"EXPR_LTE", "EXPR_GTE"}), NoError)
      [] ty \in {"EXPR_ADD", "EXPR_SUB", "EXPR_MUL", "EXPR_DIV", "EXPR_QUOT",
                  "EXPR_MOD", "EXPR_EXP"} ->
            IF L.val = NoValue THEN L
            ELSE LET seq == ltype(L.val) \in {"string", "array"} IN
            IF ltype(L.val) # "number" /\ ~(seq /\ ty \in {"EXPR_ADD", "EXPR_MUL"})
            THEN EFail(expr.item[1].line, "LATTICE_TYPE_ERROR", "operands must be numbers")
            ELSE IF R.val = NoValue THEN R
            ELSE IF ~(seq /\ ty = "EXPR_ADD") /\ ltype(R.val) # "number"
            THEN EFail(expr.item[2].line, "LATTICE_TYPE_ERROR", "operands must be numbers")
            ELSE IF seq /\ ty = "EXPR_ADD" THEN
                IF ltype(L.val) # ltype(R.val)
                THEN EFail(expr.line, "LATTICE_TYPE_ERROR",
                           "sequence concatenation requires similar types")
                ELSE IF ltype(L.val) = "string"
                THEN ERes(VStr(L.val.s \o R.val.s), NoError)
                ELSE ERes(VArr(L.val.v \o R.val.v), NoError)
            ELSE IF seq THEN EFail(expr.line, "UNMODELLED", "sequence repetition")
            ELSE IF ~Arithmetic(ty, L.val.n, R.val.n).whole
            THEN EFail(expr.line, "UNMODELLED", "result that is not a whole number")
            ELSE ERes(VNum(Arithmetic(ty, L.val.n, R.val.n).n), NoError)
      [] ty \in {"EXPR_AND", "EXPR_OR", "EXPR_XOR"} ->
            IF L.val = NoValue THEN L
            ELSE IF ltype(L.val) # "number"
            THEN EFail(expr.item[1].line, "LATTICE_TYPE_ERROR", "bitwise operands must be numbers")
            ELSE IF R.val = NoValue THEN R
            ELSE IF ltype(R.val) # "number"
            THEN EFail(expr.item[2].line, "LATTICE_TYPE_ERROR", "bitwise operands must be numbers")
            ELSE IF L.val.n < 0 \/ R.val.n < 0
            THEN EFail(expr.line, "UNMODELLED", "negative number converted to uint64_t")
            ELSE ERes(VNum(bbw_value(ty, L.val.n, R.val.n)), NoError)
      [] ty = "EXPR_NOT" ->
            IF L.val = NoValue THEN L ELSE ERes(VBool(~value_truthy(L.val)), NoError)
      [] ty \in {"EXPR_NEG", "EXPR_POS"} ->
            IF L.val = NoValue THEN L
            ELSE IF ltype(L.val) # "number"
            THEN EFail(expr.line, "LATTICE_TYPE_ERROR", "operand must be number")
            ELSE ERes(VNum(IF ty = "EXPR_NEG" THEN -L.val.n ELSE L.val.n), NoError)
      [] ty = "EXPR_ROOT" -> ERes(lclone(ctx), NoError)
      [] ty \in {"EXPR_IDENT", "EXPR_LOOKUP"} ->
            LET lhs == IF ty = "EXPR_IDENT" THEN ERes(ctx, NoError) ELSE L IN
            IF lhs.val = NoValue THEN lhs
            ELSE IF ltype(lhs.val) # "object"
            THEN EFail(expr.line, "LATTICE_TYPE_ERROR", "can only lookup properties of object")
            ELSE IF lget(lhs.val, expr.str) = NoValue
            THEN EFail(expr.line, "LATTICE_NAME_ERROR", "'" \o expr.str \o "' is undefined")
            ELSE ERes(lclone(lget(lhs.val, expr.str)), NoError)
      [] ty = "EXPR_METHOD" ->
            IF L.val = NoValue THEN L
            ELSE LET Args(a) ==
                         IF a.val = NoValue THEN a
                         ELSE method(expr.str, L.val, a.val.v, expr.line)
                 IN  Args(EvalArray(expr.list, 1, ctx, VArr(<<>>)))
      [] ty = "EXPR_INDEX" ->
            IF L.val = NoValue THEN L
            ELSE IF R.val = NoValue THEN R
            ELSE IF Len(expr.item) = 2 THEN Index(expr, L.val, R.val, NoValue, FALSE)
            ELSE LET Range(rhs2) ==
                         IF rhs2.val = NoValue THEN rhs2
                         ELSE Index(expr, L.val, R.val, rhs2.val, TRUE)
                 IN  Range(eval_expr(expr.item[3], ctx))
      [] ty = "EXPR_TERNARY" ->
            IF L.val = NoValue THEN L
            ELSE eval_expr(expr.item[IF value_truthy(L.val) THEN 2 ELSE 3], ctx)
      [] OTHER -> EFail(expr.line, "UNMODELLED", ty)

(***************************************************************************)
(* The template tokenizer.  A token is struct token; LEX_ADD callocs it,   *)
(* so its line stays 0.  While lex() runs the list is a sequence: token k  *)
(* has prev k-1 and next k+1.                                              *)
(***************************************************************************)
Token(type, ident, expr0, expr1) ==
    [type |-> type, ident |-> ident, expr |-> <<expr0, expr1>>, line |-> 0,
     prev |-> 0, next |-> 0, parent |-> 0, child |-> 0, live |-> TRUE]

keywords == <<[str |-> "if", type |-> "TOKEN_IF"],
              [str |-> "elif", type |-> "TOKEN_ELIF"],
              [str |-> "else", type |-> "TOKEN_ELSE"],
              [str |-> "switch", type |-> "TOKEN_SWITCH"],
              [str |-> "case", type |-> "TOKEN_CASE"],
              [str |-> "default", type |-> "TOKEN_DEFAULT"],
              [str |-> "for", type |-> "TOKEN_FOR_ITER"],
              [str |-> "with", type |-> "TOKEN_WITH"],
              [str |-> "end", type |-> "TOKEN_END"]>>

\* the state of lex(): src, cspan, line, the list, and how the call ended
TokSt(pos, cspan, line, toks) ==
    [pos |-> pos, cspan |-> cspan, line |-> line, toks |-> toks,
     err |-> NoError, ub |-> "", failed |-> FALSE]

\* LEX_ERR(msg): set_error, free_token(tokf), return NULL
LEX_ERR(st, message) ==
    [st EXCEPT !.err = MkError(st.line, "LATTICE_SYNTAX_ERROR", message),
               !.toks = <<>>, !.failed = TRUE]

\* a failed parse_expr: free_token(tokf), return NULL, with the error it stored
TokExprFail(st, e) ==
    [st EXCEPT !.err = e.err, !.ub = e.ub, !.toks = <<>>, !.failed = TRUE,
               !.pos = e.pos, !.line = e.line]

TokUB(st, what) == [st EXCEPT !.ub = what, !.toks = <<>>, !.failed = TRUE]

PastEnd == "read past the end of the source"

\* do { src++; if (*src == '\n') line++; } while (*src && *src != ch);
RECURSIVE ScanTo(_, _, _, _)
ScanTo(src, p, line, ch) ==
    LET q == p + 1
        l == IF At(src, q) = "\n" THEN line + 1 ELSE line
    IN  IF q > Len(src) + 1 THEN [pos |-> q, line |-> line, ub |-> PastEnd]
        ELSE IF At(src, q) # NUL /\ At(src, q) # ch THEN ScanTo(src, q, l, ch)
        ELSE [pos |-> q, line |-> l, ub |-> ""]

\* do { src++; if (*src == '\n') line++; } while (*src && isspace(*src));
RECURSIVE ScanSpace(_, _, _)
ScanSpace(src, p, line) ==
    LET q == p + 1
        l == IF At(src, q) = "\n" THEN line + 1 ELSE line
    IN  IF q > Len(src) + 1 THEN [pos |-> q, line |-> line, ub |-> PastEnd]
        ELSE IF At(src, q) # NUL /\ isspace(At(src, q)) THEN ScanSpace(src, q, l)
        ELSE [pos |-> q, line |-> l, ub |-> ""]

\* while (*src && isspace(*src)) { src++; if (*src == '\n') line++; }
RECURSIVE SkipSpace(_, _, _)
SkipSpace(src, p, line) ==
    IF At(src, p) # NUL /\ isspace(At(src, p))
    THEN SkipSpace(src, p + 1, IF At(src, p + 1) = "\n" THEN line + 1 ELSE line)
    ELSE [pos |-> p, line |-> line]

\* the keyword scan: i runs from the last keyword down; 0 when none is a prefix
RECURSIVE KeywordAt(_, _, _)
KeywordAt(src, p, i) ==
    IF i = 0 THEN 0
    ELSE IF StartsWith(src, p, keywords[i].str) THEN i
    ELSE KeywordAt(src, p, i - 1)

\* case TOKEN_FOR_ITER of lex(): st.pos is past the white space after "for"
LexFor(src, st, oobp) ==
    LET s1 == SkipSpace(src, st.pos, st.line)
        c1 == At(src, s1.pos)
        idEnd == SkipIdent(src, s1.pos + 1)
        ident == Slice(src, s1.pos, idEnd - s1.pos)
        s2 == ScanSpace(src, idEnd, s1.line)
        from == StartsWith(src, s2.pos, "from")
        s3 == SkipSpace(src, s2.pos + (IF from THEN 4 ELSE 2), s2.line)
    IN
    IF c1 = NUL \/ ~(isalpha(c1) \/ c1 = "_")
    THEN LEX_ERR([st EXCEPT !.line = s1.line], "expected identifier for loop")
    ELSE IF s2.ub # "" THEN TokUB(st, s2.ub)
    ELSE IF At(src, s2.pos) = NUL
    THEN LEX_ERR([st EXCEPT !.line = s2.line], "expected preposition for loop")
    ELSE IF ~from /\ ~StartsWith(src, s2.pos, "in")
    THEN LEX_ERR([st EXCEPT !.line = s2.line], "invalid loop preposition")
    ELSE IF from THEN
        LET High(low, inc, high) ==
                IF high.tok = NoNode THEN TokExprFail(st, high)
                ELSE [st EXCEPT !.pos = high.pos, !.line = high.line,
                         !.toks = Append(@, Token(IF inc THEN "TOKEN_FOR_RANGE_INC"
                                                  ELSE "TOKEN_FOR_RANGE_EXC",
                                                  ident, low.tok, high.tok))]
            Dots(low, inc) ==
                High(low, inc, parse_expr(src, low.pos + (IF inc THEN 3 ELSE 2), ":",
                                          low.line, oobp))
            Low(low) ==
                IF low.tok = NoNode THEN TokExprFail(st, low)
                ELSE IF ~StartsWith(src, low.pos, "..")
                THEN LEX_ERR([st EXCEPT !.line = low.line], "expected range")
                ELSE Dots(low, At(src, low.pos + 2) = "=")
        IN  Low(parse_expr(src, s3.pos, "..", s3.line, oobp))
    ELSE LET Iter(iter) ==
                 IF iter.tok = NoNode THEN TokExprFail(st, iter)
                 ELSE [st EXCEPT !.pos = iter.pos, !.line = iter.line,
                          !.toks = Append(@, Token("TOKEN_FOR_ITER", ident, iter.tok,
                                                   NoNode))]
         IN  Iter(parse_expr(src, s3.pos, ":", s3.line, oobp))

\* the default: branch of lex(): a keyword directive starting at p (after the $)
LexKeyword(src, st0, p, oobp) ==
    LET k == KeywordAt(src, p, Len(keywords))
        type == keywords[k].type
        afterKw == p + Len(keywords[k].str)
        needSpace == type \notin {"TOKEN_ELSE", "TOKEN_DEFAULT"}
        st == [st0 EXCEPT !.pos = IF needSpace THEN afterKw + 1 ELSE afterKw,
                          !.line = IF needSpace /\ At(src, afterKw) = "\n"
                                   THEN @ + 1 ELSE @]
        Flow(flow) ==
            IF flow.tok = NoNode THEN TokExprFail(st, flow)
            ELSE [st EXCEPT !.pos = flow.pos, !.line = flow.line,
                     !.toks = Append(@, Token(type, "", flow.tok, NoNode))]
        \* if (tok->type != TOKEN_END) if (*(src++) != ':') LEX_ERR("expected colon");
        Colon(body) ==
            IF body.failed \/ type = "TOKEN_END" THEN body
            ELSE IF At(src, body.pos) # ":" THEN LEX_ERR(body, "expected colon")
            ELSE [body EXCEPT !.pos = @ + 1]
    IN
    IF At(src, p) = NUL THEN LEX_ERR(st0, "expected keyword")
    ELSE IF k = 0 THEN LEX_ERR(st0, "unknown keyword")
    ELSE IF needSpace /\ ~isspace(At(src, afterKw)) THEN LEX_ERR(st, "expected whitespace")
    ELSE Colon(CASE type \in {"TOKEN_IF", "TOKEN_ELIF", "TOKEN_SWITCH", "TOKEN_CASE",
                              "TOKEN_WITH"} ->
                       Flow(parse_expr(src, st.pos, ":", st.line, oobp))
                 [] type = "TOKEN_FOR_ITER" -> LexFor(src, st, oobp)
                 [] OTHER -> [st EXCEPT !.toks = Append(@, Token(type, "", NoNode, NoNode))])

\* the directive after an unescaped $; p is the position of the byte after the $
LexDirective(src, st, p, oobp) ==
    LET c == At(src, p) IN
    CASE c = "(" ->
            LET sc == ScanTo(src, p + 1, st.line, ")") IN
            IF sc.ub # "" THEN TokUB(st, sc.ub)
            ELSE IF At(src, sc.pos) = NUL
            THEN LEX_ERR([st EXCEPT !.line = sc.line], "unterminated comment")
            ELSE [st EXCEPT !.pos = sc.pos + 1, !.line = sc.line]
      [] c \in {"[", "{"} ->
            LET close == IF c = "[" THEN "]" ELSE "}"
                Sub(sub) ==
                    IF sub.tok = NoNode THEN TokExprFail(st, sub)
                    ELSE IF At(src, sub.pos) # close
                    THEN LEX_ERR([st EXCEPT !.line = sub.line],
                                 "expected closing bracket for substitution")
                    ELSE [st EXCEPT !.pos = sub.pos + 1, !.line = sub.line,
                             !.toks = Append(@, Token(IF c = "[" THEN "TOKEN_SUB_ESC"
                                                      ELSE "TOKEN_SUB_RAW",
                                                      "", sub.tok, NoNode))]
            IN  Sub(parse_expr(src, p + 1, close, st.line, oobp))
      [] c = "<" ->
            LET sc == ScanTo(src, p + 1, st.line, ">") IN
            IF sc.ub # "" THEN TokUB(st, sc.ub)
            ELSE IF At(src, sc.pos) = NUL
            THEN LEX_ERR([st EXCEPT !.line = sc.line], "unterminated include")
            ELSE [st EXCEPT !.pos = sc.pos + 1, !.line = sc.line,
                     !.toks = Append(@, Token("TOKEN_INCLUDE",
                                              Slice(src, p + 1, sc.pos - p - 1),
                                              NoNode, NoNode))]
      [] OTHER -> LexKeyword(src, st, p, oobp)

\* if (src > cspan + 1) { LEX_ADD(TOKEN_SPAN); tok->ident = astrndup(cspan, n); }
FlushSpan(src, st, n) ==
    IF st.pos > st.cspan + 1
    THEN [st EXCEPT !.toks = Append(@, Token("TOKEN_SPAN", Slice(src, st.cspan, n),
                                             NoNode, NoNode))]
    ELSE st

\* one turn of the while (*src) loop of lex()
LexTurn(src, st0, oobp) ==
    LET c == At(src, st0.pos)
        st1 == [st0 EXCEPT !.pos = @ + 1]
    IN
    IF c = "$" THEN
        LET escape == At(src, st1.pos) = "$"
            st2 == IF escape THEN [st1 EXCEPT !.pos = @ + 1] ELSE st1
            st3 == FlushSpan(src, st2, st2.pos - st2.cspan - 1)
            \* cspan = src;
            Resume(st4) == IF st4.failed THEN st4 ELSE [st4 EXCEPT !.cspan = st4.pos]
        IN  Resume(IF escape THEN st3 ELSE LexDirective(src, st3, st3.pos, oobp))
    ELSE IF c = "\n" THEN [st1 EXCEPT !.line = @ + 1]
    ELSE st1

RECURSIVE LexLoop(_, _, _)
LexLoop(src, st, oobp) ==
    IF st.failed THEN st
    ELSE IF At(src, st.pos) # NUL THEN LexLoop(src, LexTurn(src, st, oobp), oobp)
    ELSE FlushSpan(src, st, st.pos - st.cspan)

\* lex(src, errp): the token list (empty = NULL), the error stored, and the
\* undefined behaviour met
lex(src, oobp) == LexLoop(src, TokSt(1, 1, 1, <<>>), oobp)

(***************************************************************************)
(* The block builder.  H is the heap, tokp the token the cursor points to  *)
(* (0 = NULL).  A call ends with ok (it returned non-NULL), with an error  *)
(* (it returned NULL), or in undefined behaviour (ub).                     *)
(***************************************************************************)
\* the list lex() returns, laid out in the heap from address base + 1 on
Link(toks, base) ==
    [k \in 1..Len(toks) |->
        [toks[k] EXCEPT !.prev = IF k = 1 THEN 0 ELSE base + k - 1,
                        !.next = IF k = Len(toks) THEN 0 ELSE base + k + 1]]

NullDeref == "NULL pointer dereference"

BlockSt(H, tokp) == [heap |-> H, tokp |-> tokp, ok |-> TRUE, err |-> NoError,
                     ub |-> "", ret |-> "continue"]

BlockReturn(P) == [P EXCEPT !.ret = "return"]
BlockFail(P, line, message) ==
    [P EXCEPT !.ok = FALSE, !.ret = "return",
              !.err = MkError(line, "LATTICE_SYNTAX_ERROR", message)]
BlockUB(P, what) == [P EXCEPT !.ok = FALSE, !.ret = "return", !.ub = what]

\* the unlinking both TOKEN_END branches share: owner->next = end->next, cut the
\* list before end, point the follower back at owner, free(end), cursor = owner
CloseBlock(P, owner) ==
    LET e == P.tokp
        H0 == P.heap
        H1 == [H0 EXCEPT ![owner].next = H0[e].next]
        H2 == IF H1[e].prev # 0 THEN [H1 EXCEPT ![H1[e].prev].next = 0] ELSE H1
        H3 == IF H2[e].next # 0 THEN [H2 EXCEPT ![H2[e].next].prev = owner] ELSE H2
        H4 == [H3 EXCEPT ![e].live = FALSE]
    IN  [P EXCEPT !.heap = H4, !.tokp = owner]

\* a subclause (case, default, elif, else) handed up to parent as its next sibling
HandUp(P, parent) ==
    LET t == P.tokp
        H0 == P.heap
        H1 == [H0 EXCEPT ![parent].next = t]
        H2 == IF H1[t].prev # 0 THEN [H1 EXCEPT ![H1[t].prev].next = 0] ELSE H1
        H3 == [H2 EXCEPT ![t].prev = parent]
    IN  [P EXCEPT !.heap = H3]

RECURSIVE parse_level(_)
RECURSIVE LevelLoop(_, _)
RECURSIVE SwitchLoop(_, _)

\* the inner for loop of case TOKEN_SWITCH
SwitchLoop(P0, swtch) ==
    IF P0.tokp = 0 THEN P0
    ELSE
    LET c == P0.tokp
        P1 == [P0 EXCEPT !.heap[c].parent = swtch]
        isCase == P1.heap[c].type \in {"TOKEN_CASE", "TOKEN_DEFAULT"}
        n == P1.heap[c].next
        P2 == IF ~isCase THEN P1
              ELSE IF n = 0 THEN BlockUB(P1, NullDeref)
              ELSE IF P1.heap[n].prev = 0 THEN BlockUB(P1, NullDeref)
              ELSE parse_level([P1 EXCEPT !.tokp = n,
                                          !.heap[P1.heap[n].prev].next = 0])
    IN  IF isCase /\ (~P2.ok \/ P2.ub # "") THEN BlockReturn(P2)
        ELSE IF P2.heap[P2.tokp].type = "TOKEN_END"
        THEN [CloseBlock(P2, swtch) EXCEPT !.ret = "continue"]
        ELSE SwitchLoop([P2 EXCEPT !.tokp = P2.heap[P2.tokp].next, !.ret = "continue"],
                        swtch)

\* the body of the for loop of parse_level for the token under the cursor
LevelTurn(P0, parent) ==
    LET t == P0.tokp
        P == [P0 EXCEPT !.heap[t].parent = parent]
        H == P.heap
        type == H[t].type
        descend == IF H[t].next = 0 THEN BlockUB(P, NullDeref)
                   ELSE LET r == parse_level([P EXCEPT !.tokp = H[t].next]) IN
                        IF ~r.ok \/ r.ub # "" THEN BlockReturn(r)
                        ELSE [r EXCEPT !.ret = "continue"]
    IN
    CASE type \in {"TOKEN_SPAN", "TOKEN_SUB_ESC", "TOKEN_SUB_RAW", "TOKEN_INCLUDE"} -> P
      [] type = "TOKEN_SWITCH" ->
            IF H[t].next = 0 THEN BlockUB(P, NullDeref)
            ELSE SwitchLoop([P EXCEPT !.heap[t].child = H[t].next,
                                      !.heap[H[t].next].prev = 0,
                                      !.tokp = H[t].next], t)
      [] type \in {"TOKEN_CASE", "TOKEN_DEFAULT"} ->
            IF parent = 0 THEN BlockUB(P, NullDeref)
            ELSE IF H[parent].type \notin {"TOKEN_CASE", "TOKEN_DEFAULT"}
            THEN BlockFail(P, H[t].line, "case outside of switch")
            ELSE BlockReturn([HandUp(P, parent) EXCEPT !.tokp = parent])
      [] type = "TOKEN_END" ->
            IF parent = 0 THEN BlockFail(P, H[t].line, "unexpected block terminator")
            ELSE IF H[parent].type \in {"TOKEN_CASE", "TOKEN_DEFAULT"}
            THEN BlockReturn(P)
            ELSE BlockReturn(CloseBlock(P, parent))
      [] type \in {"TOKEN_ELIF", "TOKEN_ELSE"} ->
            IF H[t].prev = 0 THEN BlockUB(P, NullDeref)
            ELSE IF H[H[t].prev].type \notin {"TOKEN_IF", "TOKEN_ELIF"}
            THEN IF parent = 0 THEN BlockUB(P, NullDeref)
                 ELSE LET U == HandUp(P, parent) IN
                      BlockReturn([U EXCEPT !.heap[t].parent = U.heap[parent].parent,
                                            !.tokp = parent])
            ELSE descend
      [] OTHER -> descend

\* for (; *tokp; *tokp = (*tokp)->next) and what follows the loop
LevelLoop(P, parent) ==
    IF P.tokp = 0
    THEN IF parent # 0 THEN BlockFail(P, 0, "unexpected end of file")
         ELSE BlockReturn(P)
    ELSE LET b == LevelTurn(P, parent) IN
         IF b.ret = "return" THEN b
         ELSE IF b.tokp = 0 THEN BlockUB(b, NullDeref)
         ELSE LevelLoop([b EXCEPT !.tokp = b.heap[b.tokp].next], parent)

parse_level(P) ==
    IF P.tokp = 0 THEN BlockUB(P, NullDeref)
    ELSE LET t == P.tokp
             parent == P.heap[t].prev
             H1 == IF parent # 0 THEN [P.heap EXCEPT ![parent].child = t] ELSE P.heap
             H2 == [H1 EXCEPT ![t].prev = 0]
         IN  LevelLoop([P EXCEPT !.heap = H2, !.ret = "continue"], parent)

(***************************************************************************)
(* Include resolution.  opts.resolve is [null, map]: the callback, as the  *)
(* table of what it returns (absent names give NULL); opts.search is       *)
(* [null, dirs].  fs maps the paths of the readable files to their         *)
(* contents.  stack lists the names of the include_stack, top first.       *)
(***************************************************************************)
MaxIncludeDepth == 3

NullStr == [null |-> TRUE, s |-> ""]
Str(s) == [null |-> FALSE, s |-> s]

CallResolve(opts, ident) ==
    IF ident \in DOMAIN opts.resolve.map THEN opts.resolve.map[ident] ELSE NullStr

search_cwd == <<".">>

\* the directory loop: the first directory of search in which ident opens
RECURSIVE SearchDirs(_, _, _)
SearchDirs(fs, search, ident) ==
    IF search = <<>> THEN NullStr
    ELSE LET path == Head(search) \o "/" \o ident IN
         IF path \in DOMAIN fs THEN Str(path)
         ELSE SearchDirs(fs, Tail(search), ident)

\* a scan that finds nothing
OnStack_never(stack, resolved) == FALSE

\* the scan of the include_stack: part->name && strcmp(part->name, resolved) == 0
OnStack(stack, resolved) == \E k \in 1..Len(stack) : stack[k] = resolved

ResSt(H) == [heap |-> H, tok |-> 0, ok |-> TRUE, err |-> NoError, ub |-> ""]
ResFail(R, err) == [R EXCEPT !.ok = FALSE, !.tok = 0, !.err = err]
ResUB(R, what) == [R EXCEPT !.ok = FALSE, !.tok = 0, !.ub = what]

UseAfterFree == "read of a freed token"
StackExhausted == "include recursion exhausts the stack"

RECURSIVE parse(_, _, _, _, _, _)
RECURSIVE parse_resolve(_, _, _, _, _, _)

parse_resolve(H, tok, opts, env, stack, depth) ==
    IF tok = 0 THEN ResSt(H)
    ELSE IF ~H[tok].live THEN ResUB(ResSt(H), UseAfterFree)
    ELSE IF H[tok].type = "TOKEN_INCLUDE" THEN
        LET ident == H[tok].ident
            line == H[tok].line
            pathMode == opts.search.null \/ opts.resolve.null
            resolved == IF ~pathMode THEN NullStr
                        ELSE IF ~opts.resolve.null THEN CallResolve(opts, ident)
                        ELSE SearchDirs(env.fs,
                                        IF opts.search.null THEN search_cwd
                                        ELSE opts.search.dirs, ident)
            src == IF ~resolved.null THEN Str(env.fs[resolved.s])
                   ELSE CallResolve(opts, ident)
        IN
        IF pathMode /\ resolved.null
        THEN IF ~opts.resolve.null THEN ResFail(ResSt(H), NoError)
             ELSE ResFail(ResSt(H),
                          MkError(line, "LATTICE_INCLUDE_ERROR", "failed to resolve include"))
        ELSE IF pathMode /\ OnStack(stack, resolved.s)
        THEN ResFail(ResSt(H),
                     MkError(line, "LATTICE_INCLUDE_ERROR",
                             "recursive include of '" \o resolved.s \o "'"))
        ELSE IF ~resolved.null /\ resolved.s \notin DOMAIN env.fs
        THEN ResFail(ResSt(H),
                     MkError(line, "LATTICE_INCLUDE_ERROR", "failed to stat include"))
        ELSE IF src.null
        THEN ResFail(ResSt(H),
                     MkError(line, "LATTICE_INCLUDE_ERROR", "failed to resolve include"))
        ELSE LET Included(sub) ==
                     IF sub.ub # "" THEN sub
                     ELSE IF sub.tok = 0 THEN ResFail(sub, sub.err)
                     ELSE parse_resolve([sub.heap EXCEPT ![tok].child = sub.tok],
                                        H[tok].next, opts, env, stack, depth)
             IN  Included(parse(H, src.s, opts, env,
                                IF ~resolved.null THEN <<resolved.s>> \o stack ELSE stack,
                                depth + 1))
    ELSE LET Children(r) ==
                 IF ~r.ok THEN r
                 ELSE parse_resolve(r.heap, H[tok].next, opts, env, stack, depth)
         IN  Children(parse_resolve(H, H[tok].child, opts, env, stack, depth))

parse(H, src, opts, env, stack, depth) ==
    IF depth > MaxIncludeDepth THEN ResUB(ResSt(H), StackExhausted)
    ELSE
    LET tok == Len(H) + 1
        Resolved(r) == IF ~r.ok THEN r ELSE [r EXCEPT !.tok = tok]
        Built(b) ==
            IF b.ub # "" THEN ResUB(ResSt(b.heap), b.ub)
            ELSE IF ~b.ok THEN ResFail(ResSt(b.heap), b.err)
            ELSE Resolved(parse_resolve(b.heap, tok, opts, env, stack, depth))
        Lexed(l) ==
            IF l.ub # "" THEN ResUB(ResSt(H), l.ub)
            ELSE IF l.failed THEN ResFail(ResSt(H), l.err)
            ELSE IF l.toks = <<>> THEN ResFail(ResSt(H), NoError)
            ELSE Built(parse_level(BlockSt(H \o Link(l.toks, Len(H)), tok)))
    IN  Lexed(lex(src, env.oobp))

(***************************************************************************)
(* The renderer.  The emit callback returns the length of the data, but    *)
(* the calls whose number is in env.emit0 return 0.  The log records, in   *)
(* order, each emit call, each condition, discriminant and case test, each *)
(* body entered and each failure (whether or not errp takes the record).   *)
(***************************************************************************)
Event(ev, tok, str, n) == [ev |-> ev, tok |-> tok, str |-> str, n |-> n]

\* the state of one eval() call: res, the slot errp points to, the log, the
\* number of emit calls so far, was_if / end_if, and whether it has returned
EvalSt(log, calls) ==
    [res |-> 0, err |-> NoError, log |-> log, calls |-> calls, ub |-> "",
     ret |-> FALSE, was_if |-> FALSE, end_if |-> FALSE]

\* set_error(errp, ...) followed by return 0
EvalFail(st, hasErrp, err) ==
    [st EXCEPT !.res = 0, !.ret = TRUE,
               !.err = IF hasErrp THEN err ELSE @,
               !.log = Append(@, Event("error", 0, err.code, 0))]

EvalUB(st, what) == [st EXCEPT !.res = 0, !.ret = TRUE, !.ub = what]

\* an escape that copies the bytes
Escape_copy(str, j) == SubSeq(str, j, Len(str))

\* the default escape of TOKEN_SUB_ESC: sprintf(str_new + k, "&#%02d;", str[j])
RECURSIVE Escape(_, _)
Escape(str, j) ==
    IF j > Len(str) THEN ""
    ELSE (CASE At(str, j) = "&" -> "&#38;"
            [] At(str, j) = "'" -> "&#39;"
            [] At(str, j) = "\"" -> "&#34;"
            [] At(str, j) = "<" -> "&#60;"
            [] At(str, j) = ">" -> "&#62;"
            [] OTHER -> At(str, j)) \o Escape(str, j + 1)

\* an emit of every string, the empty one too
Emitted_always(str) == TRUE

\* if (str[0] != 0): only a string with a first byte reaches the callback
Emitted(str) == str # ""

\* EVAL_EMIT without the test of resb
EVAL_EMIT_unchecked(st, str, line, opts, env, hasErrp) ==
    IF ~Emitted(str) THEN st
    ELSE LET resb == IF st.calls + 1 \in env.emit0 THEN 0 ELSE Len(str) IN
         [st EXCEPT !.calls = @ + 1, !.res = @ + resb,
                    !.log = Append(@, Event("emit", 0, str, resb))]

EVAL_EMIT(st, str, line, opts, env, hasErrp) ==
    IF ~Emitted(str) THEN st
    ELSE LET resb == IF st.calls + 1 \in env.emit0 THEN 0 ELSE Len(str)
             st1 == [st EXCEPT !.calls = @ + 1,
                               !.log = Append(@, Event("emit", 0, str, resb))]
         IN  IF ~opts.ignore_emit_zero /\ resb = 0
             THEN EvalFail(st1, hasErrp,
                           MkError(line, "LATTICE_IO_ERROR", "failed to write output"))
             ELSE [st1 EXCEPT !.res = @ + resb]

\* a failed eval_expr: the error went through errp; return 0
ExprFail(st, hasErrp, e) ==
    IF e.err.code = "UNMODELLED" THEN EvalUB(st, "UNMODELLED " \o e.err.message)
    ELSE IF e.err.code = "UNDEFINED" THEN EvalUB(st, e.err.message)
    ELSE EvalFail(st, hasErrp, e.err)

\* the scope object of one iteration of a named loop
RECURSIVE LoopScope(_, _, _, _)
LoopScope(ctx, i, remove_index, scope) ==
    IF i >= llength(ctx) THEN scope
    ELSE LoopScope(ctx, i + 1, remove_index,
             IF i = remove_index THEN scope
             ELSE ladd(scope, ctx.k[i + 1], lclone(lget(ctx, ctx.k[i + 1]))))

RemoveIndex(ctx, ident) ==
    IF \E i \in 1..Len(ctx.k) : ctx.k[i] = ident
    THEN (CHOOSE i \in 1..Len(ctx.k) :
              ctx.k[i] = ident /\ \A j \in 1..(i - 1) : ctx.k[j] # ident) - 1
    ELSE llength(ctx)

\* Ownership.  A value is "own" when the renderer or the evaluator created it
\* (create, clone, the result of eval_expr) and "scope" when it is the ctx the
\* caller passed in.  Every iface.free and iface.add whose target can be
\* either is logged with the owner of its target.

\* if (expr->type == EXPR_LOOKUP) iface.free(lhs): lhs is freed after a lookup
FreesLhs(ty) == ty = "EXPR_LOOKUP"

\* whether evaluating expr frees the scope: EXPR_IDENT is the one case whose lhs
\* is ctx itself, every other lhs, rhs and argument is the result of eval_expr
RECURSIVE ScopeFreed(_)
ScopeFreed(expr) ==
    \/ expr.type = "EXPR_IDENT" /\ FreesLhs(expr.type)
    \/ \E i \in 1..Len(expr.item) : ScopeFreed(expr.item[i])
    \/ \E i \in 1..Len(expr.list) : ScopeFreed(expr.list[i])
    \/ \E i \in 1..Len(expr.list2) : ScopeFreed(expr.list2[i])

\* the frees of the expressions of a token, logged before the token is rendered
Touched(st, H, tok) ==
    IF ScopeFreed(H[tok].expr[1]) \/ ScopeFreed(H[tok].expr[2])
    THEN [st EXCEPT !.log = Append(@, Event("free", tok, "scope", 0))]
    ELSE st

\* const void *scope = ctx; if (!anon_for) scope = iface.create(...)
ScopeOwner(anon_for) == IF anon_for THEN "scope" ELSE "own"

\* a loop that frees its scope after every turn
FreesLoopScope_always(anon_for) == TRUE

\* if (!anon_for) iface.free((void *) scope);
FreesLoopScope(anon_for) == ~anon_for

RECURSIVE eval(_, _, _, _, _, _, _, _)
RECURSIVE EvalLoop(_, _, _, _, _, _, _)
RECURSIVE EvalCases(_, _, _, _, _, _, _, _, _)
RECURSIVE EvalFor(_, _, _, _, _, _, _, _, _, _)

\* EVAL_SUB(tok, ctx, ...) for the body of owner; file is the name an include
\* stores in the error record
EVAL_SUB(H, owner, ctx, opts, env, hasErrp, st, file) ==
    LET Sub(r, st1) ==
            IF r.ub # "" THEN EvalUB(st1, r.ub)
            ELSE IF r.err # NoError
            THEN [st1 EXCEPT !.res = 0, !.ret = TRUE,
                             !.err = IF ~hasErrp THEN @
                                     ELSE IF file # "" THEN [r.err EXCEPT !.file = file]
                                     ELSE r.err]
            ELSE st1
        \* res += eval(tok, ctx, emit, emit_ctx, iface, opts, &err);
        Add(r) == Sub(r, [st EXCEPT !.res = @ + r.res, !.log = r.log, !.calls = r.calls])
    IN  Add(eval(H, H[owner].child, ctx, opts, env, TRUE,
                 Append(st.log, Event("body", owner, "", 0)), st.calls))

\* the loop over the children of a switch; value is the discriminant
EvalCases(H, swtch, child, value, ctx, opts, env, hasErrp, st) ==
    IF child = 0 THEN st
    ELSE IF ~H[child].live THEN EvalUB(st, UseAfterFree)
    ELSE IF H[child].type = "TOKEN_CASE" THEN
        LET Tested(eq, st1) ==
                IF eq THEN EVAL_SUB(H, child, ctx, opts, env, hasErrp, st1, "")
                ELSE EvalCases(H, swtch, H[child].next, value, ctx, opts, env, hasErrp, st1)
            \* branch is not checked: a failed eval_expr stored its error and
            \* returned NULL, which value_eq takes for a value of type null
            Branch(b, failed, eq) ==
                IF failed /\ b.err.code \in {"UNMODELLED", "UNDEFINED"} THEN ExprFail(st, hasErrp, b)
                ELSE Tested(eq,
                        [st EXCEPT
                            !.err = IF failed /\ hasErrp THEN b.err ELSE @,
                            !.log = Append(IF failed
                                           THEN Append(@, Event("error", child, b.err.code, 0))
                                           ELSE @,
                                           Event("case", child, "", IF eq THEN 1 ELSE 0))])
            Case(b) == Branch(b, b.val = NoValue, value_eq(value, b.val))
        IN  Case(eval_expr(H[child].expr[1], ctx))
    ELSE IF H[child].type = "TOKEN_DEFAULT" THEN
        IF H[child].next # 0
        THEN EvalFail(st, hasErrp, MkError(H[child].line, "LATTICE_SYNTAX_ERROR",
                                           "cannot have case after default"))
        ELSE LET Default(st1) ==
                     IF st1.ret THEN st1
                     ELSE EvalCases(H, swtch, H[child].next, value, ctx, opts, env,
                                    hasErrp, st1)
             IN  Default(EVAL_SUB(H, child, ctx, opts, env, hasErrp, st, ""))
    ELSE EvalCases(H, swtch, H[child].next, value, ctx, opts, env, hasErrp, st)

\* for (size_t i = 0;; i++) of the three loop tokens
\* a loop that leaves at once
EvalFor_break(H, tok, ctx, opts, env, hasErrp, st, from, i, from_num_to) == st

EvalFor(H, tok, ctx, opts, env, hasErrp, st, from, i, from_num_to) ==
    LET iter == H[tok].type = "TOKEN_FOR_ITER"
        anon_for == H[tok].ident = "_"
        from_num == from_num_to[1]
        to_num == from_num_to[2]
    IN
    IF (iter /\ i >= llength(from)) \/ (~iter /\ from_num >= to_num) THEN st
    ELSE
    LET bind == IF ~iter THEN VNum(from_num)
                ELSE CASE ltype(from) = "string" -> VStr(At(from.s, i + 1))
                       [] ltype(from) = "array" -> lclone(lgetAt(from, i))
                       [] ltype(from) = "object" -> VStr(from.k[i + 1])
        scope == IF anon_for THEN ctx
                 ELSE ladd(LoopScope(ctx, 0, RemoveIndex(ctx, H[tok].ident),
                                     VObj(<<>>, <<>>)),
                           H[tok].ident, bind)
        Turn(st1) ==
            IF st1.ret THEN st1
            ELSE EvalFor(H, tok, ctx, opts, env, hasErrp, st1, from, i + 1,
                         <<IF iter THEN from_num ELSE from_num + 1, to_num>>)
        \* iface.add((void *) scope, ...) inside if (!anon_for)
        Added(st1) ==
            IF anon_for THEN st1
            ELSE [st1 EXCEPT !.log = Append(@, Event("add", tok, "own", 0))]
        Freed(st1) ==
            IF FreesLoopScope(anon_for)
            THEN [st1 EXCEPT !.log = Append(@, Event("free", tok, ScopeOwner(anon_for), 0))]
            ELSE st1
    IN  Turn(Freed(EVAL_SUB(H, tok, scope, opts, env, hasErrp, Added(st), "")))

\* one turn of for (; tok; tok = tok->next)
EvalTurn(H, tok, ctx, opts, env, hasErrp, st) ==
    LET type == H[tok].type
        line == H[tok].line
        e0 == eval_expr(H[tok].expr[1], ctx)
        e1 == eval_expr(H[tok].expr[2], ctx)
    IN
    CASE type = "TOKEN_SPAN" -> EVAL_EMIT(st, H[tok].ident, line, opts, env, hasErrp)
      [] type \in {"TOKEN_SUB_ESC", "TOKEN_SUB_RAW"} ->
            IF e0.val = NoValue THEN ExprFail(st, hasErrp, e0)
            ELSE LET str == IF ltype(e0.val) # "string" THEN lprint(e0.val) ELSE e0.val.s IN
                 EVAL_EMIT(st, IF type = "TOKEN_SUB_ESC" THEN Escape(str, 1) ELSE str,
                           line, opts, env, hasErrp)
      [] type = "TOKEN_INCLUDE" ->
            EVAL_SUB(H, tok, ctx, opts, env, hasErrp, st, H[tok].ident)
      [] type \in {"TOKEN_IF", "TOKEN_ELIF"} ->
            IF e0.val = NoValue THEN ExprFail(st, hasErrp, e0)
            ELSE LET t == value_truthy(e0.val)
                     st1 == [st EXCEPT !.end_if = t,
                                !.log = Append(@, Event("cond", tok, "", IF t THEN 1 ELSE 0))]
                 IN  IF t THEN EVAL_SUB(H, tok, ctx, opts, env, hasErrp, st1, "") ELSE st1
      [] type = "TOKEN_ELSE" -> EVAL_SUB(H, tok, ctx, opts, env, hasErrp, st, "")
      [] type = "TOKEN_SWITCH" ->
            IF e0.val = NoValue THEN ExprFail(st, hasErrp, e0)
            ELSE EvalCases(H, tok, H[tok].child, e0.val, ctx, opts, env, hasErrp,
                           [st EXCEPT !.log = Append(@, Event("switch", tok, "", 0))])
      [] type \in {"TOKEN_FOR_RANGE_EXC", "TOKEN_FOR_RANGE_INC", "TOKEN_FOR_ITER"} ->
            IF ltype(ctx) # "object" /\ H[tok].ident # "_"
            THEN EvalFail(st, hasErrp, MkError(line, "LATTICE_TYPE_ERROR",
                                               "cannot bind in non-object scope"))
            ELSE IF e0.val = NoValue THEN ExprFail(st, hasErrp, e0)
            ELSE IF type = "TOKEN_FOR_ITER"
            THEN IF ltype(e0.val) \notin {"string", "array", "object"}
                 THEN EvalFail(st, hasErrp, MkError(line, "LATTICE_TYPE_ERROR",
                                                    "loop values must be iterable"))
                 ELSE EvalFor(H, tok, ctx, opts, env, hasErrp, st, e0.val, 0, <<0, 0>>)
            ELSE IF e1.val = NoValue THEN ExprFail(st, hasErrp, e1)
            ELSE IF ltype(e0.val) # "number" \/ ltype(e1.val) # "number"
            THEN EvalFail(st, hasErrp, MkError(line, "LATTICE_TYPE_ERROR",
                                               "loop indices must be numbers"))
            ELSE EvalFor(H, tok, ctx, opts, env, hasErrp, st, e0.val, 0,
                         <<e0.val.n,
                           e1.val.n + (IF type = "TOKEN_FOR_RANGE_INC" THEN 1 ELSE 0)>>)
      [] type = "TOKEN_WITH" ->
            IF e0.val = NoValue THEN ExprFail(st, hasErrp, e0)
            ELSE LET Freed(st1) ==
                         IF st1.ret THEN st1
                         ELSE [st1 EXCEPT !.log = Append(@, Event("free", tok, "own", 0))]
                 IN  Freed(EVAL_SUB(H, tok, e0.val, opts, env, hasErrp, st, ""))
      [] OTHER -> st

EvalLoop(H, tok, ctx, opts, env, hasErrp, st) ==
    IF tok = 0 THEN st
    ELSE IF ~H[tok].live THEN EvalUB(st, UseAfterFree)
    ELSE LET sub == H[tok].type \in {"TOKEN_ELIF", "TOKEN_ELSE"} IN
         IF sub /\ ~st.was_if
         THEN EvalFail(st, hasErrp, MkError(H[tok].line, "LATTICE_SYNTAX_ERROR",
                                            "unexpected subclause"))
         ELSE IF sub /\ st.end_if
         THEN EvalLoop(H, H[tok].next, ctx, opts, env, hasErrp, st)
         ELSE LET Turn(st1) ==
                      IF st1.ret THEN st1
                      ELSE EvalLoop(H, H[tok].next, ctx, opts, env, hasErrp,
                               [st1 EXCEPT
                                   !.was_if = H[tok].type \in {"TOKEN_IF", "TOKEN_ELIF"}])
              IN  Turn(EvalTurn(H, tok, ctx, opts, env, hasErrp, Touched(st, H, tok)))

eval(H, tok, ctx, opts, env, hasErrp, log, calls) ==
    EvalLoop(H, tok, ctx, opts, env, hasErrp, EvalSt(log, calls))

(***************************************************************************)
(* lattice(): parse, eval, free_token                                      *)
(***************************************************************************)
\* free_token: the child list, then the next list, then the token itself; a
\* token reached a second time has been freed already
RECURSIVE free_token(_, _)
free_token(H, token) ==
    IF token = 0 THEN [heap |-> H, ub |-> ""]
    ELSE IF ~H[token].live THEN [heap |-> H, ub |-> UseAfterFree]
    ELSE LET Self(n) ==
                 IF n.ub # "" THEN n
                 ELSE IF ~n.heap[token].live THEN [heap |-> n.heap, ub |-> UseAfterFree]
                 ELSE [heap |-> [n.heap EXCEPT ![token].live = FALSE], ub |-> ""]
             Next_(c) == IF c.ub # "" THEN c ELSE Self(free_token(c.heap, H[token].next))
         IN  Next_(free_token(H, H[token].child))

\* what a call that ran into undefined behaviour may hand back
GarbageResults == {0, 1}

\* struct token *tok = parse(template, opts, NULL, errp); if (!tok) return 0;
LatticeParse ==
    /\ pc = "parse"
    /\ LET Parsed(r) ==
       /\ heap' = r.heap
       /\ tokf' = r.tok
       /\ IF r.ub # ""
          THEN /\ crashed' = r.ub
               /\ pc' = "done"
               /\ error' = NoError
               /\ res' \in GarbageResults
          ELSE /\ crashed' = ""
               /\ pc' = IF r.tok = 0 THEN "done" ELSE "eval"
               /\ error' = IF call.errp THEN r.err ELSE NoError
               /\ res' = 0
       IN  Parsed(parse(<<>>, call.template, call.opts, call.env, <<>>, 0))
    /\ UNCHANGED <<call, trace>>

\* size_t res = eval(tok, root, emit, emit_ctx, iface, opts, errp);
LatticeEval ==
    /\ pc = "eval"
    /\ LET Rendered(r) ==
       /\ trace' = r.log
       /\ error' = r.err
       /\ IF r.ub # ""
          THEN /\ crashed' = r.ub
               /\ pc' = "done"
               /\ res' \in GarbageResults
          ELSE /\ crashed' = ""
               /\ pc' = "free"
               /\ res' = r.res
       IN  Rendered(eval(heap, tokf, call.root, call.opts, call.env, call.errp, <<>>, 0))
    /\ UNCHANGED <<call, heap, tokf>>

\* free_token(tok); return res;
LatticeFree ==
    /\ pc = "free"
    /\ LET Freed(f) ==
               /\ heap' = f.heap
               /\ crashed' = f.ub
               /\ res' \in IF f.ub # "" THEN GarbageResults ELSE {res}
       IN  Freed(free_token(heap, tokf))
    /\ pc' = "done"
    /\ UNCHANGED <<call, tokf, error, trace>>

Next == LatticeParse \/ LatticeEval \/ LatticeFree

\* the text the emit callback received, in order
RECURSIVE Output(_)
Output(log) ==
    IF log = <<>> THEN ""
    ELSE (IF Head(log).ev = "emit" THEN Head(log).str ELSE "") \o Output(Tail(log))

(***************************************************************************)
(* The calls of lattice() the model explores                               *)
(***************************************************************************)
NoSearch == [null |-> TRUE, dirs |-> <<>>]
NoResolve == [null |-> TRUE, map |-> <<>>]
NoFiles == <<>>

\* the zero-filled lattice_opts
DefaultOpts == [search |-> NoSearch, resolve |-> NoResolve, ignore_emit_zero |-> FALSE]

\* oobp values: the padding after binary_op_prec, or LEX_BOTH of binary_op[0]
OobWords == {0, 14}

Call(kind, template, root, opts, errp, fs, emit0, oobp) ==
    [kind |-> kind, template |-> template, root |-> root, opts |-> opts, errp |-> errp,
     env |-> [fs |-> fs, oobp |-> oobp, emit0 |-> emit0]]

\* templates of literal text, escaped dollars and substitutions
MaxPieces == 3

TextPieces == {"a", "$$", "${n}", "bc"}

RECURSIVE Texts(_)
Texts(n) ==
    IF n = 0 THEN {""}
    ELSE LET T == Texts(n - 1) IN T \cup {t \o piece : t \in T, piece \in TextPieces}

TextTemplates == Texts(MaxPieces)

NameRoot(n) == VObj(<<"n", "name">>, <<VNum(n), VStr("world")>>)

TextCalls ==
    {Call("text", t, NameRoot(7), DefaultOpts, e, NoFiles, {}, w) :
        t \in TextTemplates \cup {"Hello, ${name}!"}, e \in BOOLEAN, w \in OobWords}

\* the examples of the documentation
IfExample == "$if n > 0: pos$elif n < 0: neg$else: zero$end"

ExampleCalls ==
    {Call("example", t, NameRoot(n), DefaultOpts, e, NoFiles, {}, 0) :
        t \in {IfExample, IfExample \o " ", "${}", "$[]", "${ }x", "${n", "$"},
        n \in {1, 0, -3}, e \in BOOLEAN}

\* if / elif / else chains: $if p:A$elif q:B$elif r:C$else:E$end
MaxElifs == 2

CondNames == <<"p", "q", "r", "s", "t">>
ArmBodies == <<"A", "B", "C", "D", "F">>
CondValues == {VBool(TRUE), VBool(FALSE), VNum(0), VStr("s"), VNull}

RECURSIVE Elifs(_, _)
Elifs(i, n) ==
    IF i > n THEN ""
    ELSE "$elif " \o CondNames[i + 1] \o ":" \o ArmBodies[i + 1] \o Elifs(i + 1, n)

ChainTemplate(n, els) ==
    "$if p:A" \o Elifs(1, n) \o (IF els THEN "$else:E" ELSE "") \o "$end "

ChainShapes == (0..MaxElifs) \X BOOLEAN

ChainRoot(vs) == VObj(SubSeq(CondNames, 1, Len(vs)), vs)

ChainCalls ==
    UNION {{Call("chain", ChainTemplate(sh[1], sh[2]), ChainRoot(vs), DefaultOpts, TRUE,
                 NoFiles, {}, 0) : vs \in [1..(sh[1] + 1) -> CondValues]} :
           sh \in ChainShapes}

\* switches: $switch n:$case 1:A$case zz:B$default:D$end , the default last,
\* first or missing; zz is not defined
MaxCases == 2

CaseExprs == {"1", "2", "zz"}
Defaults == {"none", "last", "first"}
Discriminants == {VNum(1), VNum(2), VNum(3), VStr("1"), VNull}

RECURSIVE CaseClauses(_, _)
CaseClauses(exprs, i) ==
    IF i > Len(exprs) THEN ""
    ELSE "$case " \o exprs[i] \o ":" \o ArmBodies[i] \o CaseClauses(exprs, i + 1)

SwitchTemplate(exprs, dflt) ==
    "$switch n:" \o (IF dflt = "first" THEN "$default:E" ELSE "")
                 \o CaseClauses(exprs, 1)
                 \o (IF dflt = "last" THEN "$default:E" ELSE "") \o "$end "

SwitchShapes ==
    {sh \in (UNION {[1..k -> CaseExprs] : k \in 0..MaxCases}) \X Defaults :
        sh[2] = "first" => sh[1] # <<>>}

SwitchCalls ==
    {Call("switch", SwitchTemplate(sh[1], sh[2]), VObj(<<"n">>, <<v>>), DefaultOpts, e,
          NoFiles, {}, 0) :
        sh \in SwitchShapes, v \in Discriminants, e \in BOOLEAN}

\* a switch inside an if, whose failure goes through EVAL_SUB
NestedSwitchCalls ==
    {Call("switch-in-if", "$if n:" \o SwitchTemplate(<<x>>, "last") \o "$end ",
          VObj(<<"n">>, <<VNum(3)>>), DefaultOpts, e, NoFiles, {}, 0) :
        x \in CaseExprs, e \in BOOLEAN}

\* emit callbacks that return 0: the calls numbered in emit0
MaxEmitCalls == 3

EmitTemplates == {"ab${n}cd ", "$if n:ab${n}$end cd ", "ab$for i in xs:${i}$end cd"}

ListRoot == VObj(<<"n", "xs">>, <<VNum(5), VArr(<<VNum(7), VNum(8)>>)>>)

EmitCalls ==
    {Call("emit", t, ListRoot, [DefaultOpts EXCEPT !.ignore_emit_zero = ig], e, NoFiles,
          z, 0) :
        t \in EmitTemplates, ig \in BOOLEAN, e \in BOOLEAN, z \in SUBSET (1..MaxEmitCalls)}

\* @ inside with and for: $with o:$for i in xs:${@.a}$end $end
MaxScopeDepth == 2

ScopeOpeners == {"$with o:", "$for i in xs:", "$for _ in xs:"}

RECURSIVE Scoped(_)
Scoped(n) ==
    IF n = 0 THEN {"${@.a}"}
    ELSE LET S == Scoped(n - 1) IN S \cup {o \o t \o "$end " : o \in ScopeOpeners, t \in S}

RECURSIVE Nest(_)
Nest(n) ==
    VObj(<<"a", "xs", "o">>,
         <<VNum(n), VArr(<<VNum(7), VNum(8)>>), IF n = 0 THEN VNull ELSE Nest(n - 1)>>)

ScopeCalls ==
    {Call("scope", t \o " ", Nest(MaxScopeDepth + 1), DefaultOpts, e, NoFiles, {}, 0) :
        t \in Scoped(MaxScopeDepth), e \in BOOLEAN}

\* includes: a.tmpl and b.tmpl include each other, c.tmpl includes nothing
IncludeFiles ==
    [path \in {"./a.tmpl", "./b.tmpl", "./c.tmpl", "inc/c.tmpl"} |->
        CASE path = "./a.tmpl" -> "$<b.tmpl>"
          [] path = "./b.tmpl" -> "$<a.tmpl>"
          [] path = "./c.tmpl" -> "C${n}. "
          [] OTHER -> "I${n}. "]

IncludeTemplates == {"$<a.tmpl>", "$<b.tmpl>", "x$<c.tmpl>y ", "$<d.tmpl>"}

\* a resolve callback that knows c.tmpl only, as a path and as contents
ResolvePath == [null |-> FALSE, map |-> [id \in {"c.tmpl"} |-> Str("./c.tmpl")]]
ResolveContents == [null |-> FALSE, map |-> [id \in {"c.tmpl"} |-> Str("R${n}. ")]]
SearchInc == [null |-> FALSE, dirs |-> <<"inc", ".">>]

IncludeOpts ==
    {DefaultOpts,
     [DefaultOpts EXCEPT !.search = SearchInc],
     [DefaultOpts EXCEPT !.resolve = ResolvePath],
     [DefaultOpts EXCEPT !.search = SearchInc, !.resolve = ResolveContents]}

IncludeCalls ==
    {Call("include", t, NameRoot(7), o, e, IncludeFiles, {}, 0) :
        t \in IncludeTemplates, o \in IncludeOpts, e \in BOOLEAN}

\* range loops over bounds taken from the root: $for x from lo..hi:${x},$end
MaxRange == 3

RangeBounds == (-1)..MaxRange

RangeTemplate(inc) ==
    "$for x from lo.." \o (IF inc THEN "=" ELSE "") \o "hi:${x},$end "

RangeCalls ==
    {Call("range", RangeTemplate(inc), VObj(<<"lo", "hi">>, <<VNum(a), VNum(b)>>),
          DefaultOpts, TRUE, NoFiles, {}, 0) :
        inc \in BOOLEAN, a \in RangeBounds, b \in RangeBounds}

\* the range example of the documentation, as written and with a blank after
\* $end, and the same loop with a blank between the literal and the dots
RangeExample == "$for i from 1..=3:${i},$end"

RangeExampleCalls ==
    {Call("range-example", t, VObj(<<>>, <<>>), DefaultOpts, e, NoFiles, {}, 0) :
        t \in {RangeExample, RangeExample \o " ", "$for i from 1 ..=3:${i},$end "},
        e \in BOOLEAN}

\* escaped substitutions: $[html] over strings of markup bytes
MaxEscLen == 2

EscPieces == {"<", ">", "&", "'", "\"", "b"}

RECURSIVE EscStrings(_)
EscStrings(n) ==
    IF n = 0 THEN {""}
    ELSE LET S == EscStrings(n - 1) IN S \cup {s \o piece : s \in S, piece \in EscPieces}

HtmlExample == "<b>&\"</b>"

EscapeCalls ==
    {Call("escape", "$[html]", VObj(<<"html">>, <<VStr(s)>>), DefaultOpts, TRUE, NoFiles,
          {}, 0) :
        s \in EscStrings(MaxEscLen) \cup {HtmlExample}}

\* two binary operators in a row: every pair of the eighteen operators
BinaryOpTexts == <<"&&", "||", "==", "!=", "<", "<=", ">", ">=", "&", "|", "^",
                   "+", "-", "*", "/", "//", "**", "%">>

PrecTemplate(o1, o2) == "${4 " \o BinaryOpTexts[o1] \o " 2 " \o BinaryOpTexts[o2] \o " 1} "

PrecExample == "${2 * 3 ** 2} "

PrecCalls ==
    {Call("prec", t, VObj(<<>>, <<>>), DefaultOpts, TRUE, NoFiles, {}, w) :
        t \in {PrecTemplate(o1, o2) : o1, o2 \in 1..Len(BinaryOpTexts)} \cup {PrecExample},
        w \in OobWords}

\* object literals whose keys are taken from the root: the i-th key is the
\* string KeyNames[i], null, or a number
MaxKeys == 3
KeyNames == <<"a", "b", "c", "d">>

RECURSIVE ObjectEntries(_, _)
ObjectEntries(i, n) ==
    IF i > n THEN ""
    ELSE "k" \o PrintNat(i) \o ": " \o PrintNat(i) \o (IF i < n THEN ", " ELSE "")
         \o ObjectEntries(i + 1, n)

ObjectTemplate(n) == "${{" \o ObjectEntries(1, n) \o "}} "

ObjectRoots(n) ==
    {VObj([i \in 1..n |-> "k" \o PrintNat(i)], vs) :
        vs \in {f \in [1..n -> {VNull, VNum(7)} \cup {VStr(KeyNames[i]) : i \in 1..n}] :
                    \A i \in 1..n : ltype(f[i]) = "string" => f[i] = VStr(KeyNames[i])}}

ObjectExample == "${{null: 1, \"a\": 2}} "

ObjectCalls ==
    UNION {{Call("object", ObjectTemplate(n), r, DefaultOpts, TRUE, NoFiles, {}, 0) :
               r \in ObjectRoots(n)} : n \in 1..MaxKeys}
    \cup {Call("object", ObjectExample, VObj(<<>>, <<>>), DefaultOpts, TRUE, NoFiles, {}, 0)}

\* subscripts of a string or an array of up to MaxSeqLen items, with indices
\* from one below -len to one above len
MaxSeqLen == 3
SeqText == "abcd"

Sequences(n) == {VStr(SubSeq(SeqText, 1, n)), VArr([k \in 1..n |-> VNum(k)])}

IndexSingle == "${s[i]} "
IndexRange == "${s[i,j]} "

IndexCall(t, s, i, j) ==
    Call("index", t, VObj(<<"s", "i", "j">>, <<s, VNum(i), VNum(j)>>),
         DefaultOpts, TRUE, NoFiles, {}, 0)

IndexCalls ==
    UNION {{IndexCall(IndexSingle, s, i, 0) : s \in Sequences(n), i \in (-n - 1)..(n + 1)}
           \cup {IndexCall(IndexRange, s, i, j) :
                    s \in Sequences(n), i \in (-n - 1)..(n + 1), j \in (-n - 1)..(n + 1)} :
           n \in 0..MaxSeqLen}

\* method calls r.name(1, ..., 1): every catalog name and some names outside
\* the catalog ("foo" and "len" hash to the slots of join and length), on a
\* receiver of every type, with 0 .. MaxArgs arguments
MaxArgs == 3
MethodNames == {methods[m].name : m \in 1..Len(methods)} \cup {"foo", "len", "size"}

Receivers == {VNull, VBool(TRUE), VNum(2), VStr("ab"), VArr(<<VNum(1)>>), VObj(<<>>, <<>>),
              VObj(<<"k", "l">>, <<VNum(1), VNum(2)>>)}

RECURSIVE ArgList(_)
ArgList(n) == IF n = 0 THEN "" ELSE "1" \o (IF n > 1 THEN ", " ELSE "") \o ArgList(n - 1)

MethodTemplate(name, n) == "${r." \o name \o "(" \o ArgList(n) \o ")} "

MethodCalls ==
    {Call("method", MethodTemplate(name, n),
          VObj(<<"r", "name", "n">>, <<r, VStr(name), VNum(n)>>),
          DefaultOpts, TRUE, NoFiles, {}, 0) :
        name \in MethodNames, n \in 0..MaxArgs, r \in Receivers}

\* directives that fail, on line 1 .. MaxLines + 1: a loop over a number, range
\* bounds that are no numbers, a named loop in a scope that is no object, an
\* emit callback that returns 0, an include nothing resolves, a stray end
MaxLines == 2

RECURSIVE Newlines(_)
Newlines(n) == IF n = 0 THEN "" ELSE "\n" \o Newlines(n - 1)

FailingDirectives ==
    {"$for x in n:a$end ", "$for x from s..n:a$end ", "$with n:$for x in s:a$end $end ",
     "${n} ", "$<d.tmpl>", "$end "}

LineRoot == VObj(<<"n", "s">>, <<VNum(5), VStr("ab")>>)

LineCalls ==
    {Call("line", Newlines(k) \o t, LineRoot, DefaultOpts, TRUE, IncludeFiles,
          IF t = "${n} " THEN {IF k = 0 THEN 1 ELSE 2} ELSE {}, 0) :
        t \in FailingDirectives, k \in 0..MaxLines}

\* includes that fail inside the included file: bad.tmpl fails when rendered,
\* syn.tmpl fails when parsed, outr.tmpl and outs.tmpl include them
FaultyFiles ==
    [path \in {"./bad.tmpl", "./syn.tmpl", "./outr.tmpl", "./outs.tmpl"} |->
        CASE path = "./bad.tmpl" -> "${q} "
          [] path = "./syn.tmpl" -> "${1 +} "
          [] path = "./outr.tmpl" -> "x$<bad.tmpl>"
          [] OTHER -> "x$<syn.tmpl>"]

FaultyIncludes == {"bad.tmpl", "syn.tmpl", "outr.tmpl", "outs.tmpl"}

FaultyCalls ==
    {Call("include-error", "$<" \o f \o ">", VObj(<<"file">>, <<VStr(f)>>), DefaultOpts,
          TRUE, FaultyFiles, {}, 0) : f \in FaultyIncludes}

\* a subclause or a terminator with no opener, first or after a literal span
StrayClauses == {"$end ", "$case 1:x$end ", "$default:x$end ", "$elif n:x$end ", "$else:x$end "}

StrayCalls ==
    {Call("stray", p \o t, VObj(<<"n">>, <<VNum(5)>>), DefaultOpts, e, NoFiles, {}, 0) :
        p \in {"", "ab"}, t \in StrayClauses, e \in BOOLEAN}

\* block openers with no end: the opener is the last token (nothing or a
\* dropped one-byte literal follows it) or a literal follows it
Unclosed ==
    {"$if n:", "$if n:a$elif n:", "$if n:a$else:", "$switch n:", "$switch n:$case 1:",
     "$switch n:$default:", "$for x in xs:", "$for x from n..n:", "$with n:"}

UnclosedTails == {"", "x", "xy"}

UnclosedCalls ==
    {Call("unclosed", t \o s, ListRoot, DefaultOpts, TRUE, NoFiles, {}, 0) :
        t \in Unclosed, s \in UnclosedTails}

\* substitutions of empty strings, alone, between literals, next to each other,
\* escaped, in an if body and in a loop
EmptyTemplates ==
    {"${e}", "a${e}b ", "${e}${e}  ", "$[e]x ", "$if n:${e}$end ", "$for i in es:${i}$end  ",
     "${e + e}  "}

EmptyRoot == VObj(<<"n", "e", "es">>, <<VNum(5), VStr(""), VArr(<<VStr(""), VStr("x")>>)>>)

EmptyCalls ==
    {Call("empty", t, EmptyRoot, [DefaultOpts EXCEPT !.ignore_emit_zero = ig], TRUE, NoFiles,
          z, 0) :
        t \in EmptyTemplates, ig \in BOOLEAN, z \in {{}, {1}}}

\* an elif or an else directly after the end of an if chain, at top level and
\* inside the body of an enclosing if
ClosedArms == {"$elif q:b$end  ", "$else:b$end  "}

ClosedRoots ==
    {VObj(<<"p", "q", "r">>, <<VNum(p), VNum(q), VNum(r)>>) : p, q, r \in {0, 1}}

ClosedCalls ==
    {Call("closed", o \o "$if p:a$end " \o t, root, DefaultOpts, TRUE, NoFiles, {}, 0) :
        o \in {"", "$if r:"}, t \in ClosedArms, root \in ClosedRoots}

\* blocks with an empty body: the end directly after the opener
HollowTemplates ==
    {"$if n:$end  ", "$if n:$end xy", "$if n:a$elif n:$end  ", "$if n:a$else:$end  ",
     "$with n:$end  ", "$for x in xs:$end  ", "$for _ in xs:$end  ",
     "$switch n:$case 5:$end  ", "$switch n:$default:$end  ", "$if n:$if n:$end $end  ",
     "$if n:a$end  "}

HollowCalls ==
    {Call("hollow", t, root, DefaultOpts, TRUE, NoFiles, {}, 0) :
        t \in HollowTemplates,
        root \in {ListRoot, VObj(<<"n", "xs">>, <<VNum(0), VArr(<<>>)>>)}}

\* switches with literal text before the first case, and with a default before
\* a case
SwitchTextTemplates ==
    {"$switch n:$case 5:a$end  ", "$switch n:$case 5:a$default:b$end  ",
     "$switch n:\n$case 5:a$end  ", "$switch n:xy$case 5:a$default:b$end  ",
     "$switch n:${n}$case 5:a$end  ", "$switch n:$default:b$case 5:a$end  ",
     "$switch n:$case 5:a$default:b$case 6:c$end  "}

SwitchTextCalls ==
    {Call("switch-text", t, ListRoot, DefaultOpts, TRUE, NoFiles, {}, 0) :
        t \in SwitchTextTemplates}

\* find and contains on strings and arrays, with needles that occur once, twice
\* and not at all
Haystacks ==
    {VStr("abcab"), VStr("ab"), VStr(""),
     VArr(<<VNum(1), VNum(2), VNum(1)>>), VArr(<<VStr("a"), VStr("b")>>), VArr(<<>>)}

Needles == {VStr("ab"), VStr("b"), VStr("z"), VNum(1), VNum(2), VNum(3)}

FindCalls ==
    {Call("find", "${s." \o m \o "(x)}", VObj(<<"s", "x">>, <<p[1], p[2]>>), DefaultOpts,
          TRUE, NoFiles, {}, 0) :
        m \in {"find", "contains"},
        p \in {q \in Haystacks \X Needles :
                  ltype(q[1]) = "string" => ltype(q[2]) = "string"}}

\* a cycle of two includes in each of the four search/resolve modes: paths from
\* the working directory, from a search list, from resolve, and contents from
\* resolve
CyclePaths ==
    [null |-> FALSE, map |-> [id \in {"a.tmpl", "b.tmpl"} |-> Str("./" \o id)]]

CycleContents ==
    [null |-> FALSE,
     map |-> [id \in {"a.tmpl", "b.tmpl"} |-> Str(IncludeFiles["./" \o id])]]

CycleOpts ==
    {DefaultOpts,
     [DefaultOpts EXCEPT !.search = SearchInc],
     [DefaultOpts EXCEPT !.resolve = CyclePaths],
     [DefaultOpts EXCEPT !.search = SearchInc, !.resolve = CycleContents]}

CycleCalls ==
    {Call("cycle", t, NameRoot(7), o, TRUE, IncludeFiles, {}, 0) :
        t \in {"$<a.tmpl>", "x$<b.tmpl>y "}, o \in CycleOpts}

\* sources that end inside a string literal, an escape, a comment or an include
CutShort ==
    {"${\"ab", "${'ab}", "${\"a\\", "${\"a\\x", "${\"a\\x4", "${\"a\\x4g",
     "$(", "$(a", "$<", "$<a", "ab$(", "ab$<"}

CutShortCalls ==
    {Call("cut-short", t, ListRoot, DefaultOpts, TRUE, NoFiles, {}, 0) : t \in CutShort}

\* join over arrays of up to MaxJoined strings, the empty array included
MaxJoined == 2

JoinItems == {VStr(""), VStr("a"), VStr("bc")}

JoinArrays == UNION {[1..n -> JoinItems] : n \in 0..MaxJoined}

JoinCalls ==
    {Call("join", "${xs.join(sep)}", VObj(<<"xs", "sep">>, <<VArr(xs), VStr(sep)>>),
          DefaultOpts, TRUE, NoFiles, {}, 0) :
        xs \in JoinArrays, sep \in {"", ",", ", "}}

Calls ==
    TextCalls \cup ExampleCalls \cup ChainCalls \cup SwitchCalls \cup NestedSwitchCalls
        \cup EmitCalls \cup ScopeCalls \cup IncludeCalls
        \cup RangeCalls \cup RangeExampleCalls
        \cup EscapeCalls
        \cup PrecCalls
        \cup ObjectCalls
        \cup IndexCalls
        \cup MethodCalls
        \cup LineCalls
        \cup FaultyCalls
        \cup StrayCalls
        \cup UnclosedCalls
        \cup EmptyCalls
        \cup ClosedCalls
        \cup HollowCalls
        \cup SwitchTextCalls
        \cup FindCalls
        \cup CycleCalls
        \cup CutShortCalls
        \cup JoinCalls

Init ==
    /\ pc = "parse"
    /\ call \in Calls
    /\ heap = <<>>
    /\ tokf = 0
    /\ error = NoError
    /\ crashed = ""
    /\ res = 0
    /\ trace = <<>>

Spec == Init /\ [][Next]_vars

(***************************************************************************)
(* Properties                                                              *)
(***************************************************************************)
Returned == pc = "done"

\* the events of one kind, in order
Emits == SelectSeq(trace, LAMBDA e : e.ev = "emit")
Conds == SelectSeq(trace, LAMBDA e : e.ev = "cond")
Bodies == SelectSeq(trace, LAMBDA e : e.ev = "body")
Switches == SelectSeq(trace, LAMBDA e : e.ev = "switch")
CaseTests == SelectSeq(trace, LAMBDA e : e.ev = "case")

RECURSIVE SumReturns(_)
SumReturns(events) ==
    IF events = <<>> THEN 0 ELSE Head(events).n + SumReturns(Tail(events))

Contains(str, sub) == \E i \in 1..Len(str) : StartsWith(str, i, sub)

\* the first index of a sequence that satisfies a test, 0 when none does
First(n, Test(_)) ==
    IF \E i \in 1..n : Test(i)
    THEN CHOOSE i \in 1..n : Test(i) /\ \A k \in 1..(i - 1) : ~Test(k)
    ELSE 0

\* C1: inside the body of a with or of a for, at any depth, @ is the root that
\* was passed to the call: ${@.a} emits the a of the root
C1_RootInEveryScope ==
    (Returned /\ call.kind = "scope" /\ crashed = "") =>
        \A i \in 1..Len(Emits) : Emits[i].str = PrintInt(lget(call.root, "a").n)

\* what the documentation says a template of text, $$ and ${ident} renders to
RECURSIVE Unescaped(_, _, _)
Unescaped(src, i, root) ==
    IF i > Len(src) THEN ""
    ELSE IF StartsWith(src, i, "$$") THEN "$" \o Unescaped(src, i + 2, root)
    ELSE IF StartsWith(src, i, "${")
    THEN LET close == CHOOSE j \in i..Len(src) : At(src, j) = "}" /\
                          \A k \in i..(j - 1) : At(src, k) # "}"
             v == lget(root, Slice(src, i + 2, close - i - 2))
         IN  (IF v.t = "string" THEN v.s ELSE PrintInt(v.n))
             \o Unescaped(src, close + 1, root)
    ELSE At(src, i) \o Unescaped(src, i + 1, root)

\* C2: every $$ renders as one $ and every literal byte is emitted unchanged and
\* in order, whatever the length and the position of the literal run, the run
\* after the last directive included
C2_LiteralsPassThrough ==
    (Returned /\ call.kind = "text") =>
        /\ crashed = ""
        /\ Output(trace) = Unescaped(call.template, 1, call.root)

\* C3: without ignore_emit_zero the first emit call that returns 0 is the last
\* emit call, LATTICE_IO_ERROR is stored and the render returns 0; with
\* ignore_emit_zero a return of 0 is no error, every directive is still
\* rendered and the result is the sum of the emit returns
C3_EmitZero ==
    (Returned /\ call.kind = "emit") =>
        /\ crashed = ""
        /\ IF ~call.opts.ignore_emit_zero
           THEN LET zero == First(Len(Emits), LAMBDA i : Emits[i].n = 0) IN
                IF zero = 0
                THEN error = NoError /\ res = SumReturns(Emits)
                ELSE /\ zero = Len(Emits)
                     /\ call.errp => error.code = "LATTICE_IO_ERROR"
                     /\ res = 0
           ELSE /\ error = NoError
                /\ Output(trace) \in {"ab5cd ", "ab78cd"}
                /\ res = SumReturns(Emits)

C3_Witness ==
    /\ Returned /\ call.kind = "emit" /\ ~call.opts.ignore_emit_zero
    /\ Len(Emits) = 2 /\ Emits[2].n = 0
    /\ error.code = "LATTICE_IO_ERROR" /\ res = 0

\* C4: once an expression fails to evaluate (the expression of a case
\* included) no body is entered, no emit call is made and the render returns 0
C4_FirstErrorAborts ==
    (Returned /\ crashed = "") =>
        \A i \in 1..Len(trace) :
            trace[i].ev = "error" =>
                /\ res = 0
                /\ \A k \in (i + 1)..Len(trace) : trace[k].ev \notin {"emit", "body"}

\* C5: when lattice() stops before rendering, or the evaluation fails, and the
\* caller passed errp, an error record with a code has been stored
C5_FailureStoresError ==
    (Returned /\ crashed = "" /\ call.errp) =>
        /\ tokf = 0 => error.code # ""
        /\ (\E i \in 1..Len(trace) : trace[i].ev = "error") => error.code # ""

\* C6: a resolve callback that returns NULL makes the call fail with
\* LATTICE_INCLUDE_ERROR, in path mode (search NULL) and in contents mode
C6_NullResolveIsIncludeError ==
    \A name \in {"a.tmpl", "b.tmpl", "d.tmpl"} :
        (/\ Returned /\ crashed = "" /\ call.kind = "include" /\ call.errp
         /\ call.template = "$<" \o name \o ">"
         /\ ~call.opts.resolve.null /\ CallResolve(call.opts, name).null) =>
            error.code = "LATTICE_INCLUDE_ERROR"

\* the source of a.tmpl rendered with the files resolved in the filesystem
CycleCall ==
    /\ call.kind = "include" /\ call.errp
    /\ call.template = IncludeFiles["./a.tmpl"]
    /\ call.opts.resolve.null

\* C7 as the documentation has it: the call fails with LATTICE_INCLUDE_ERROR
\* and the message names a.tmpl
C7_CycleNamesFirstFile ==
    (Returned /\ CycleCall) =>
        /\ error.code = "LATTICE_INCLUDE_ERROR"
        /\ Contains(error.message, "a.tmpl")

\* C7: a.tmpl includes b.tmpl and b.tmpl includes a.tmpl: rendering the source
\* of a.tmpl fails with LATTICE_INCLUDE_ERROR, nothing is rendered, and the
\* message names the file that came up a second time, b.tmpl
C7_CycleIsIncludeError ==
    (Returned /\ CycleCall) =>
        /\ crashed = ""
        /\ error.code = "LATTICE_INCLUDE_ERROR"
        /\ error.message = "recursive include of './b.tmpl'"
        /\ tokf = 0 /\ trace = <<>> /\ res = 0

C7_Witness ==
    /\ Returned /\ CycleCall /\ call.opts.search.null
    /\ Contains(error.message, "recursive include") /\ Contains(error.message, "b.tmpl")

\* the truthiness of the documentation
Truthy(v) ==
    v \notin {VNull, VBool(FALSE), VNum(0), VStr(""), VArr(<<>>), VObj(<<>>, <<>>)}

\* C8: in an if / elif / else chain the body of the first arm whose condition
\* is truthy is the one rendered, the conditions after it are not evaluated,
\* the else body is rendered exactly when every condition was falsy, and at
\* most one body is rendered
C8_FirstTruthyArm ==
    \A sh \in ChainShapes :
        (Returned /\ call.kind = "chain" /\ call.template = ChainTemplate(sh[1], sh[2])) =>
            LET vs == call.root.v
                first == First(Len(vs), LAMBDA i : Truthy(vs[i]))
            IN  /\ crashed = "" /\ error = NoError
                /\ Len(Conds) = IF first = 0 THEN Len(vs) ELSE first
                /\ \A i \in 1..Len(Conds) : Conds[i].n = IF i = first THEN 1 ELSE 0
                /\ Len(Bodies) = IF first > 0 \/ sh[2] THEN 1 ELSE 0
                /\ Output(trace) = IF first > 0 THEN ArmBodies[first]
                                   ELSE IF sh[2] THEN "E" ELSE ""
                /\ res = Len(Output(trace))

C8_Witness ==
    /\ Returned /\ call.kind = "chain" /\ call.template = ChainTemplate(2, TRUE)
    /\ ~Truthy(call.root.v[1]) /\ Truthy(call.root.v[2]) /\ Truthy(call.root.v[3])
    /\ Len(Conds) = 2 /\ Output(trace) = "B"

\* C9: the example chain renders pos, zero, neg for n = 1, 0, -3 although the
\* template ends with the keyword $end
C9_ExampleChain ==
    (Returned /\ call.template = IfExample) =>
        /\ error = NoError
        /\ Output(trace) = (CASE lget(call.root, "n").n > 0 -> "pos"
                              [] lget(call.root, "n").n < 0 -> "neg"
                              [] OTHER -> "zero")

\* the value of a case expression of the switch templates
CaseValue(x) == IF x = "1" THEN VNum(1) ELSE VNum(2)

\* what the documentation says of a switch: one evaluation of the
\* discriminant, the cases tested in source order up to the first equal one,
\* whose body is the only one rendered; the default body when none is equal
SwitchSelects(exprs, dflt) ==
    LET first == First(Len(exprs), LAMBDA i : CaseValue(exprs[i]) = lget(call.root, "n")) IN
    /\ Len(Switches) = 1
    /\ Len(CaseTests) = IF first = 0 THEN Len(exprs) ELSE first
    /\ \A i \in 1..Len(CaseTests) :
          /\ CaseTests[i].n = IF i = first THEN 1 ELSE 0
          /\ i > 1 => CaseTests[i].tok > CaseTests[i - 1].tok
    /\ Len(Bodies) = IF first > 0 \/ dflt # "none" THEN 1 ELSE 0
    /\ Output(trace) = IF first > 0 THEN ArmBodies[first]
                       ELSE IF dflt # "none" THEN "E" ELSE ""

\* the switches whose case expressions all evaluate
SwitchCall(sh) ==
    /\ Returned /\ crashed = "" /\ call.kind = "switch"
    /\ call.template = SwitchTemplate(sh[1], sh[2])
    /\ \A i \in 1..Len(sh[1]) : sh[1][i] # "zz"

RECURSIVE RangeText(_, _)
RangeText(a, b) == IF a >= b THEN "" ELSE PrintInt(a) \o "," \o RangeText(a + 1, b)

\* C11: for x from a..b renders its body max(0, b - a) times with x = a, ...,
\* b - 1 in that order, for x from a..=b renders it max(0, b - a + 1) times
\* with x = a, ..., b, and nothing is rendered when b < a
C11_RangeIterations ==
    \A inc \in BOOLEAN :
        (Returned /\ call.kind = "range" /\ call.template = RangeTemplate(inc)) =>
            LET a == lget(call.root, "lo").n
                b == lget(call.root, "hi").n + (IF inc THEN 1 ELSE 0)
            IN  /\ crashed = "" /\ error = NoError
                /\ Len(Bodies) = IF b > a THEN b - a ELSE 0
                /\ Output(trace) = RangeText(a, b)
                /\ res = Len(Output(trace))

C11_Witness ==
    /\ Returned /\ call.kind = "range" /\ call.template = RangeTemplate(TRUE)
    /\ lget(call.root, "lo") = VNum(-1) /\ lget(call.root, "hi") = VNum(1)
    /\ Len(Bodies) = 3 /\ Output(trace) = "-1,0,1,"

\* C12: the range example renders 1,2,3, : the low bound 1 ends at the dots
C12_RangeExample ==
    (Returned /\ call.kind = "range-example") =>
        /\ crashed = "" /\ error = NoError
        /\ Output(trace) = "1,2,3,"

\* the decimal character reference of the five bytes, the byte itself otherwise
Entity(c) ==
    CASE c = "&" -> "&#" \o PrintNat(38) \o ";"
      [] c = "'" -> "&#" \o PrintNat(39) \o ";"
      [] c = "\"" -> "&#" \o PrintNat(34) \o ";"
      [] c = "<" -> "&#" \o PrintNat(60) \o ";"
      [] c = ">" -> "&#" \o PrintNat(62) \o ";"
      [] OTHER -> c

RECURSIVE Entities(_)
Entities(str) ==
    IF str = "" THEN "" ELSE Entity(SubSeq(str, 1, 1)) \o Entities(SubSeq(str, 2, Len(str)))

\* C13: with the default escape $[e] emits the text with each of & ' " < >
\* replaced by its &#NN; reference and every other byte unchanged, in order
C13_DefaultEscape ==
    (Returned /\ call.kind = "escape") =>
        /\ crashed = "" /\ error = NoError
        /\ Output(trace) = Entities(lget(call.root, "html").s)
        /\ Len(Emits) = IF lget(call.root, "html").s = "" THEN 0 ELSE 1
        /\ res = Len(Output(trace))

C13_Witness ==
    /\ Returned /\ call.kind = "escape" /\ lget(call.root, "html").s = HtmlExample
    /\ Output(trace) = "&#60;b&#62;&#38;&#34;&#60;/b&#62;"

\* the six documented precedence levels, lowest first
DocLevel(ty) ==
    CASE ty \in {"EXPR_BOTH", "EXPR_EITHER"} -> 1
      [] ty \in {"EXPR_EQ", "EXPR_NEQ", "EXPR_LT", "EXPR_LTE", "EXPR_GT", "EXPR_GTE"} -> 2
      [] ty \in {"EXPR_AND", "EXPR_OR", "EXPR_XOR"} -> 3
      [] ty \in {"EXPR_ADD", "EXPR_SUB"} -> 4
      [] ty \in {"EXPR_MUL", "EXPR_DIV", "EXPR_QUOT", "EXPR_MOD"} -> 5
      [] ty = "EXPR_EXP" -> 6
      [] OTHER -> 0

\* the expression tree of a "x o1 y o2 z" template once it is parsed
PrecTree == heap[tokf].expr[1]

PrecParsed == call.kind = "prec" /\ pc = "eval" /\ tokf # 0

\* C14: binary operators parse in six levels (&& ||; comparisons; & | ^; + -;
\* * / // %; **), a higher level binding tighter and equal levels associating
\* to the left: "x o1 y o2 z" is "x o1 (y o2 z)" exactly when o2 is of a
\* higher level than o1, and "(x o1 y) o2 z" otherwise.
C14_SixLevels ==
    PrecParsed =>
        IF DocLevel(PrecTree.item[1].type) > 0
        THEN DocLevel(PrecTree.type) <= DocLevel(PrecTree.item[1].type)
        ELSE /\ DocLevel(PrecTree.item[2].type) > 0
             /\ DocLevel(PrecTree.item[2].type) > DocLevel(PrecTree.type)

\* the object a literal with the given keys denotes when the i-th value is the
\* number i: the string keys, each with the value of its own position
RECURSIVE PairedByPosition(_, _, _)
PairedByPosition(keys, i, object) ==
    IF i > Len(keys) THEN object
    ELSE PairedByPosition(keys, i + 1,
             IF ltype(keys[i]) = "string" THEN ladd(object, keys[i].s, VNum(i)) ELSE object)

ObjectKeys == IF call.template = ObjectExample THEN <<VNull, VStr("a")>> ELSE call.root.v

\* C15: an object literal pairs keys and values by position: a null key drops
\* its own value only, every string key keeps the value written at its
\* position, and a key that is neither a string nor null is a type error
C15_ObjectPairsByPosition ==
    (Returned /\ call.kind = "object") =>
        /\ crashed = ""
        /\ IF \E i \in 1..Len(ObjectKeys) : ltype(ObjectKeys[i]) \notin {"null", "string"}
           THEN error.code = "LATTICE_TYPE_ERROR" /\ Emits = <<>>
           ELSE /\ error = NoError
                /\ Output(trace) = lprint(PairedByPosition(ObjectKeys, 1, VObj(<<>>, <<>>)))

\* what ${e} emits for a value: a string as it is, any other value printed
Shown(value) == IF ltype(value) = "string" THEN value.s ELSE lprint(value)

\* the items lo .. hi - 1 (counted from 0) of a string or an array
SliceOf(s, lo, hi) ==
    IF ltype(s) = "string" THEN VStr(SubSeq(s.s, lo + 1, hi)) ELSE VArr(SubSeq(s.v, lo + 1, hi))

\* the item k (counted from 0) of a string or an array
ItemOf(s, k) == IF ltype(s) = "string" THEN VStr(SubSeq(s.s, k + 1, k + 1)) ELSE s.v[k + 1]

\* an endpoint of a range: counted from the end when negative, then clamped
\* into 0 .. len
Clamped(x, len) ==
    LET y == IF x < 0 THEN x + len ELSE x IN
    IF y < 0 THEN 0 ELSE IF y > len THEN len ELSE y

\* C16: s[i] with -len <= i < len is the item i, counted from the end when i is
\* negative, and a value error for any other i; s[i,j] is the slice between
\* the two endpoints, each counted from the end when negative and then
\* clamped into 0 .. len, and the empty slice when the second lies before the
\* first
C16_IndexAndRange ==
    (Returned /\ call.kind = "index") =>
        LET s == lget(call.root, "s")
            i == lget(call.root, "i").n
            j == lget(call.root, "j").n
            len == llength(s)
            lo == Clamped(i, len)
            hi == IF Clamped(j, len) < lo THEN lo ELSE Clamped(j, len)
        IN  /\ crashed = ""
            /\ IF call.template = IndexRange
               THEN error = NoError /\ Output(trace) = Shown(SliceOf(s, lo, hi))
               ELSE IF i >= -len /\ i < len
               THEN error = NoError /\ Output(trace) = Shown(ItemOf(s, Clamped(i, len)))
               ELSE error.code = "LATTICE_VALUE_ERROR" /\ Emits = <<>>

\* the number of arguments of a catalog name, -1 for any other name
Arity(name) ==
    IF \E m \in 1..Len(methods) : methods[m].name = name
    THEN methods[CHOOSE m \in 1..Len(methods) : methods[m].name = name].length
    ELSE -1

\* the receiver types the catalog gives no meaning to, for each name
Unsupported(name) ==
    CASE name \in {"contains", "find", "repeat"} -> {"null", "boolean", "number", "object"}
      [] name = "join" -> {"null", "boolean", "number", "string", "object"}
      [] name \in {"keys", "values", "length"} -> {"null", "boolean", "number"}
      [] name \in {"lower", "upper", "datetime"} ->
            {"null", "boolean", "number", "array", "object"}
      [] name \in {"round", "nan", "real"} -> {"null", "boolean", "string", "array", "object"}
      [] name = "number" -> {"array", "object"}
      [] name \in {"replace", "reverse", "sort"} ->
            {"null", "boolean", "number", "string", "array", "object"}
      [] OTHER -> {}

MethodIsNull == crashed = "" /\ error = NoError /\ Output(trace) = "null"

\* C17: a name outside the catalog evaluates to null whatever the arguments; a
\* catalog name with a number of arguments other than its arity is a value
\* error whatever the receiver; a catalog name with the right number of
\* arguments on a receiver type it does not support evaluates to null
C17_MethodDispatch ==
    (Returned /\ call.kind = "method") =>
        LET name == lget(call.root, "name").s
            n == lget(call.root, "n").n
            this == lget(call.root, "r")
        IN  IF Arity(name) < 0 THEN MethodIsNull
            ELSE IF n # Arity(name)
            THEN crashed = "" /\ error.code = "LATTICE_VALUE_ERROR" /\ Emits = <<>>
            ELSE ltype(this) \in Unsupported(name) => MethodIsNull

\* the line of the first byte that is not a newline
RECURSIVE FirstLine(_)
FirstLine(str) == IF At(str, 1) = "\n" THEN 1 + FirstLine(SubSeq(str, 2, Len(str))) ELSE 1

\* C18: an error raised for a directive carries the line of that directive,
\* counted from 1
C18_DirectiveLine ==
    (Returned /\ call.kind = "line") =>
        /\ crashed = ""
        /\ error.code # ""
        /\ error.line = FirstLine(call.template)

\* the included file in which the error of an "include-error" call occurs
Innermost(f) ==
    CASE f = "outr.tmpl" -> "bad.tmpl"
      [] f = "outs.tmpl" -> "syn.tmpl"
      [] OTHER -> f

\* C19: an error that occurs inside an included template, when it is parsed or
\* when it is rendered, carries in file the identifier of the included file it
\* occurred in, the innermost one when includes are nested
C19_ErrorFile ==
    (Returned /\ call.kind = "include-error") =>
        /\ crashed = ""
        /\ error.code # ""
        /\ error.file = Innermost(lget(call.root, "file").s)

\* C20: a template with end, case, default, elif or else at top level, with no
\* opener before it, is rejected with a LATTICE_SYNTAX_ERROR and renders
\* nothing
C20_StrayClauseRejected ==
    (Returned /\ call.kind = "stray") =>
        /\ crashed = ""
        /\ call.errp => error.code = "LATTICE_SYNTAX_ERROR"
        /\ res = 0 /\ Emits = <<>>

\* C21: a block opener with no matching end before the end of the source makes
\* parsing fail with a LATTICE_SYNTAX_ERROR, also when the opener is the last
\* token of the source
C21_UnclosedIsSyntaxError ==
    (Returned /\ call.kind = "unclosed") =>
        /\ crashed = ""
        /\ error.code = "LATTICE_SYNTAX_ERROR"
        /\ tokf = 0 /\ Emits = <<>>

\* the frees and adds the renderer logged
Mutations == SelectSeq(trace, LAMBDA e : e.ev \in {"free", "add"})

C23_NoEmptyEmit ==
    \A i \in 1..Len(Emits) : Emits[i].str # ""

\* a template of one empty substitution rendered with no emit call and no error
C23_Witness ==
    /\ Returned /\ call.kind = "empty" /\ crashed = ""
    /\ call.template = "${e}" /\ call.env.emit0 = {1}
    /\ Emits = <<>> /\ res = 0 /\ error.code = ""

\* the output of $if r:$if p:a$end <arm>b$end when the first end closes the
\* inner chain and the arm belongs to the enclosing if
ArmOfEnclosing(src, root) ==
    IF value_truthy(lget(root, "r"))
    THEN (IF value_truthy(lget(root, "p")) THEN "a" ELSE "")
    ELSE IF Contains(src, "$else:") \/ value_truthy(lget(root, "q")) THEN "b" ELSE ""

\* C24: the end of an if chain closes it: an elif or else right after that end
\* is a stray subclause at top level, and inside the body of an enclosing if it
\* is an arm of the enclosing if
C24_EndClosesChain ==
    (Returned /\ call.kind = "closed") =>
        /\ crashed = ""
        /\ IF StartsWith(call.template, 1, "$if r:")
           THEN error.code = "" /\ Output(trace) = ArmOfEnclosing(call.template, call.root)
           ELSE error.code = "LATTICE_SYNTAX_ERROR" /\ Emits = <<>>

\* the number of child/next paths from tok to target; a freed token has no
\* pointers to follow
RECURSIVE PathsTo(_, _, _, _)
PathsTo(H, tok, target, fuel) ==
    IF tok = 0 \/ fuel = 0 THEN 0
    ELSE IF ~H[tok].live THEN 0
    ELSE (IF tok = target THEN 1 ELSE 0)
         + PathsTo(H, H[tok].child, target, fuel - 1)
         + PathsTo(H, H[tok].next, target, fuel - 1)

\* what the block builder leaves of the tokens of src
Built(src) ==
    LET Lexed(l) == parse_level(BlockSt(Link(l.toks, 0), 1)) IN Lexed(lex(src, 0))

\* a pointer of the tree: null or a live token that is not an end
TreePointer(H, p) == p = 0 \/ (H[p].live /\ H[p].type # "TOKEN_END")

\* C25: after the block builder succeeds no end token is part of the tree: the
\* child and next pointers of every live token are null or point to a live
\* token that is not an end, also for an empty body, and every live token is
\* reachable from the root by exactly one path
C25_NoEndInTree ==
    (pc # "parse" /\ call.kind = "hollow") =>
        LET Tree(b) ==
                (b.ok /\ b.ub = "") =>
                    \A t \in 1..Len(b.heap) :
                        b.heap[t].live =>
                            /\ TreePointer(b.heap, b.heap[t].child)
                            /\ TreePointer(b.heap, b.heap[t].next)
                            /\ PathsTo(b.heap, 1, t, Len(b.heap) + 1) = 1
        IN  Tree(Built(call.template))

\* the tokens of a sibling list, following next from tok
RECURSIVE Siblings(_, _, _)
Siblings(H, tok, fuel) ==
    IF tok = 0 \/ fuel = 0 THEN <<>>
    ELSE IF ~H[tok].live THEN <<tok>>
    ELSE <<tok>> \o Siblings(H, H[tok].next, fuel - 1)

\* C26: after the block builder succeeds the child list of every switch holds
\* only case and default tokens, also when literal text stands between the
\* switch and its first case, and a default is the last child
C26_SwitchChildren ==
    (pc # "parse" /\ call.kind = "switch-text") =>
        LET Tree(b) ==
                (b.ok /\ b.ub = "") =>
                    \A t \in 1..Len(b.heap) :
                        (b.heap[t].live /\ b.heap[t].type = "TOKEN_SWITCH") =>
                            LET Cases(c) ==
                                    \A i \in 1..Len(c) :
                                        /\ b.heap[c[i]].live
                                        /\ b.heap[c[i]].type \in {"TOKEN_CASE", "TOKEN_DEFAULT"}
                                        /\ b.heap[c[i]].type = "TOKEN_DEFAULT" => i = Len(c)
                            IN  Cases(Siblings(b.heap, b.heap[t].child, Len(b.heap)))
        IN  Tree(Built(call.template))

\* whether x occurs in this at index i: as a substring starting at byte i of a
\* string, as an element equal to x of an array
OccursAt(this, x, i) ==
    IF ltype(this) = "string" THEN StartsWith(this.s, i + 1, x.s)
    ELSE value_eq(lgetAt(this, i), x)

\* the first index at which x occurs in this, -1 when there is none
FirstIndex(this, x) ==
    IF \E i \in 0..(llength(this) - 1) : OccursAt(this, x, i)
    THEN CHOOSE i \in 0..(llength(this) - 1) :
             OccursAt(this, x, i) /\ \A j \in 0..(i - 1) : ~OccursAt(this, x, j)
    ELSE -1

\* C27: find(x) is the first index at which x occurs in the receiver, a string
\* or an array, and -1 when it does not occur; contains(x) is true exactly
\* when that index is not -1
C27_FindFirstIndex ==
    (Returned /\ call.kind = "find") =>
        LET At_(in) ==
                /\ crashed = "" /\ error.code = ""
                /\ Output(trace) = IF Contains(call.template, "contains")
                                   THEN lprint(VBool(in # -1)) ELSE lprint(VNum(in))
        IN  At_(FirstIndex(lget(call.root, "s"), lget(call.root, "x")))

\* C28: parsing terminates for every options record: a cycle of includes is
\* detected in each of the four search/resolve modes and ends in an include
\* error, not in unbounded recursion
C28_CycleDetected ==
    (Returned /\ call.kind = "cycle") =>
        /\ crashed = ""
        /\ error.code = "LATTICE_INCLUDE_ERROR"
        /\ Contains(error.message, "recursive include")
        /\ Emits = <<>>

\* C29: the tokenizer and the expression lexer never read past the
\* terminating NUL: a source that ends inside a string literal, after a
\* backslash or \x, or right after $( or $< ends in a syntax error
C29_NoReadPastEnd ==
    (Returned /\ call.kind = "cut-short") =>
        /\ crashed = ""
        /\ error.code = "LATTICE_SYNTAX_ERROR"
        /\ tokf = 0 /\ Emits = <<>>

\* the elements with sep between consecutive ones
RECURSIVE Interleaved(_, _)
Interleaved(items, sep) ==
    IF items = <<>> THEN ""
    ELSE IF Len(items) = 1 THEN items[1].s
    ELSE items[1].s \o sep \o Interleaved(Tail(items), sep)

\* C30: for every array of strings, the empty one included, join(sep) computes
\* without wrap-around a buffer length of at least the length of the joined
\* string plus its terminator, and returns the elements with sep between
\* consecutive ones; the empty array gives the empty string
C30_JoinLength ==
    (Returned /\ call.kind = "join") =>
        LET items == lget(call.root, "xs").v
            sep == lget(call.root, "sep").s
        IN  /\ (Len(items) - 1) * Len(sep) \in 0..(SizeMod - 1)
            /\ JoinBuffer(items, sep) >= Len(Interleaved(items, sep)) + 1
            /\ crashed = "" /\ error.code = ""
            /\ Output(trace) = Interleaved(items, sep)

====
